---- MODULE Spec2Model ----
(***************************************************************************)
(* Model of reemission/emissions.py: the gas emission models               *)
(* CarbonDioxideEmission, MethaneEmission and NitrousOxideEmission (Spec), *)
(* and of the HEET parsers of reemission/integration/heet:                 *)
(* TabularHeetOutput (SpecTab) and ShpConcatenator (SpecShp).              *)
(*                                                                         *)
(* Floating-point results are modelled as expression terms: a term records *)
(* the sequence of float operations the code performs on its inputs, so    *)
(* two results are equal in the model exactly when the code computes them  *)
(* by the same operations on the same operands.  Only the IEEE-754 laws    *)
(* stated at the constructors below are built in.  Inputs coming from the  *)
(* collaborators (Catchment, Reservoir, MonthlyTemperature) are integers.  *)
(* A raised Python exception is the term <<"err", name>> and propagates    *)
(* through every operation in evaluation order.                            *)
(***************************************************************************)
EXTENDS Integers, Sequences, FiniteSets, TLC

VARIABLES obj, op, args, ret, logged,
          data, mandatory_columns, optional_columns, shp_files

vars == <<obj, op, args, ret, logged,
          data, mandatory_columns, optional_columns, shp_files>>
\* The state of the HEET parsers: the table of a TabularHeetOutput, the two
\* list objects its caller passes to filter_columns, and the files of a
\* ShpConcatenator.
heet == <<data, mandatory_columns, optional_columns, shp_files>>

(***************************************************************************)
(* Bounds of the model.                                                    *)
(***************************************************************************)
\* Longest tuple of years passed to profile().
MaxLen == 2

(***************************************************************************)
(* Float terms.                                                            *)
(***************************************************************************)
Num(n) == <<"num", n>>
Lit(s) == <<"lit", s>>
Err(e) == <<"err", e>>
Zero == Num(0)
IsErr(t) == t[1] = "err"
IsNum(t) == t[1] = "num"

\* A binary float operation: the left operand is evaluated first, a raised
\* exception in either operand is what the operation raises.
Bin(o, a, b) == IF IsErr(a) THEN a ELSE IF IsErr(b) THEN b ELSE <<o, a, b>>
Una(o, a) == IF IsErr(a) THEN a ELSE <<o, a>>

Neg(a) == Una("neg", a)
Add(a, b) == Bin("add", a, b)
\* IEEE 754: a - b is a + (-b).
Sub(a, b) == Add(a, Neg(b))
\* 0 * x is 0 for every finite x.
Mul(a, b) ==
    IF IsErr(a) THEN a
    ELSE IF IsErr(b) THEN b
    ELSE IF a = Zero \/ b = Zero THEN Zero
    ELSE <<"mul", a, b>>
\* x / 0 raises ZeroDivisionError; 0 / x is 0.
Div(a, b) ==
    IF IsErr(a) THEN a
    ELSE IF IsErr(b) THEN b
    ELSE IF b = Zero THEN Err("ZeroDivisionError")
    ELSE IF a = Zero THEN Zero
    ELSE <<"div", a, b>>
Pow(a, b) == Bin("pow", a, b)
\* Mutant: a logarithm that returns a value for every argument.
Mut_Log10(a) == IF IsErr(a) THEN a ELSE <<"log10", a>>

\* math.log10 raises ValueError ("math domain error") for x <= 0.
Log10(a) ==
    IF IsErr(a) THEN a
    ELSE IF IsNum(a) /\ a[2] <= 0 THEN Err("ValueError")
    ELSE <<"log10", a>>
\* math.log and math.exp.
Ln(a) == Una("log", a)
Exp(a) == Una("exp", a)

\* sum(list): 0 + e1 + e2 + ...
RECURSIVE SumFrom(_, _)
SumFrom(acc, s) ==
    IF s = <<>> THEN acc ELSE SumFrom(Add(acc, Head(s)), Tail(s))
Sum(s) == SumFrom(Zero, s)

\* The first exception raised while the terms of s are computed in order,
\* or Zero when none is.
RECURSIVE FirstErr(_)
FirstErr(s) ==
    IF s = <<>> THEN Zero
    ELSE IF IsErr(Head(s)) THEN Head(s) ELSE FirstErr(Tail(s))

\* What a call hands back: a float, a list of floats, or a raised exception.
NoRet == [kind |-> "none", val |-> Zero]
Raised(e) == [kind |-> "error", val |-> e]
RetNum(t) == IF IsErr(t) THEN Raised(t) ELSE [kind |-> "num", val |-> t]
RetList(s) ==
    IF IsErr(FirstErr(s)) THEN Raised(FirstErr(s))
    ELSE [kind |-> "list", val |-> s]

(***************************************************************************)
(* Collaborators.  Catchment, Reservoir and MonthlyTemperature are inputs  *)
(* of the models; their attributes and method results are given here.      *)
(***************************************************************************)
Landuses == <<"bare", "water", "crops", "forest">>
_list_of_landuses == Landuses \o Landuses \o Landuses

Catchments ==
    { [name |-> "c1", river_area |-> 1, climate |-> "boreal",
       soil_type |-> "mineral",
       inflow_p_conc |-> [gres |-> 10, mcdowell |-> 20],
       nitrogen_load |-> 7, phosphorus_load |-> [gres |-> 3, mcdowell |-> 4],
       discharge |-> 9],
      [name |-> "c2", river_area |-> 12, climate |-> "tropical",
       soil_type |-> "organic",
       inflow_p_conc |-> [gres |-> 30, mcdowell |-> 0],
       nitrogen_load |-> 0, phosphorus_load |-> [gres |-> 5, mcdowell |-> 0],
       discharge |-> 9] }

Reservoirs ==
    { [name |-> "r1", area |-> 10, area_fractions |-> <<0, 2, 3, 5>>,
       soil_carbon |-> 2, littoral_area_frac |-> 4, global_radiance |-> 5,
       residence_time |-> 6, discharge |-> 8, water_intake_depth |-> 20,
       thermocline_depth |-> 15, ch4_preemission_factor |-> 11],
      [name |-> "r2", area |-> 3, area_fractions |-> <<1, 1, 1, 1, 1, 1>>,
       soil_carbon |-> 1, littoral_area_frac |-> 50, global_radiance |-> 4,
       residence_time |-> 0, discharge |-> 13, water_intake_depth |-> 15,
       thermocline_depth |-> 15, ch4_preemission_factor |-> 0],
      [name |-> "r3", area |-> 7, area_fractions |-> <<6, 4>>,
       soil_carbon |-> 3, littoral_area_frac |-> 25, global_radiance |-> 6,
       residence_time |-> 2, discharge |-> 14, water_intake_depth |-> 5,
       thermocline_depth |-> 15, ch4_preemission_factor |-> 17] }

\* Reservoirs whose area is not positive, as a CarbonDioxideEmission may be
\* given.
DegenerateReservoirs ==
    { [name |-> "r4", area |-> 0, area_fractions |-> <<1, 1>>,
       soil_carbon |-> 2, littoral_area_frac |-> 10, global_radiance |-> 5,
       residence_time |-> 3, discharge |-> 8, water_intake_depth |-> 20,
       thermocline_depth |-> 15, ch4_preemission_factor |-> 11],
      [name |-> "r5", area |-> -2, area_fractions |-> <<1, 1>>,
       soil_carbon |-> 2, littoral_area_frac |-> 10, global_radiance |-> 5,
       residence_time |-> 3, discharge |-> 8, water_intake_depth |-> 5,
       thermocline_depth |-> 15, ch4_preemission_factor |-> 11] }

\* Reservoir.reservoir_tp(inflow_conc, method): the retention model is the
\* reservoir's; its result is given by the inflow concentration.
Reservoir_reservoir_tp(inflow_conc) == Num(inflow_conc)

MethodKey(method) == IF method = "mcdowell" THEN "mcdowell" ELSE "gres"

(***************************************************************************)
(* Configuration store and pre-impoundment tables.                         *)
(***************************************************************************)
\* A configuration is the set of "SECTION.name" keys the file holds.
Key(section, name) == <<section, name>>
CO2_list_of_constants ==
    {"k1_diff", "k2_diff", "k3_diff", "k4_diff", "k5_diff", "k6_diff",
     "k7_diff", "conv_coeff", "co2_gwp100", "weight_C", "weight_CO2"}
CH4_par_list ==
    {"k1_diff", "k2_diff", "k3_diff", "k4_diff", "k1_ebull", "k2_ebull",
     "k3_ebull", "k1_degas", "k2_degas", "k3_degas", "k4_degas",
     "weight_CO2", "weight_CH4", "weight_C", "ch4_gwp100", "conv_coeff"}
N2O_par_list == {"nitrous_gwp100", "weight_O", "weight_P", "weight_N"}

FullConfig ==
    {Key("CARBON_DIOXIDE", n) : n \in CO2_list_of_constants}
    \cup {Key("METHANE", n) : n \in CH4_par_list}
    \cup {Key("NITROUS_OXIDE", n) : n \in N2O_par_list}
    \cup {Key("CALCULATIONS", "ret_coeff_method")}
\* The complete file, one that lacks a constant of every gas section, and
\* one that lacks the gas sections altogether.
Configs ==
    { FullConfig,
      FullConfig \ {Key("CARBON_DIOXIDE", "k7_diff"),
                    Key("METHANE", "k4_degas"),
                    Key("NITROUS_OXIDE", "weight_P")},
      {Key("CALCULATIONS", "ret_coeff_method")} }

\* config.getfloat(section, name): NoSectionError when the file has no such
\* section, NoOptionError when the section lacks the name.
getfloat(config, section_name, par_name) ==
    IF \A k \in config : k[1] # section_name THEN Err("NoSectionError")
    ELSE IF Key(section_name, par_name) \notin config
    THEN Err("NoOptionError")
    ELSE <<"par", section_name, par_name>>

\* Mutant: a name the file lacks reads as a fallback value, without an
\* error.
Mut_par_from_config(config, list_of_constants, section_name) ==
    [n \in list_of_constants |-> <<"par", section_name, n>>]

\* Emission._par_from_config: one float per listed name; a name that cannot
\* be read raises.
_par_from_config(config, list_of_constants, section_name) ==
    [n \in list_of_constants |-> getfloat(config, section_name, n)]
\* The exception the first unreadable name raises, Zero when there is none.
ParError(par) ==
    IF \E n \in DOMAIN par : IsErr(par[n])
    THEN (CHOOSE e \in {par[n] : n \in DOMAIN par} : IsErr(e))
    ELSE Zero

\* A pre-impoundment table is the set of (climate, soil type, land use)
\* combinations that have a coefficient.
Climates == {"boreal", "tropical"}
SoilTypes == {"mineral", "organic"}
TableLanduses == {"bare", "crops", "forest"}
\* read_table(pre-impoundment.yaml): the table with a coefficient for every
\* combination, and one that has none for forest on tropical organic soil.
read_table ==
    { Climates \X SoilTypes \X TableLanduses,
      (Climates \X SoilTypes \X TableLanduses)
          \ {<<"tropical", "organic", "forest">>} }
Coeff(gas, table, climate, soil, landuse) ==
    IF <<climate, soil, landuse>> \in table
    THEN <<"tab", gas, climate, soil, landuse>>
    ELSE Err("KeyError")
\* pre_impoundment_table['boreal']['mineral'].keys()
supported_landuses(table) ==
    {l \in TableLanduses : <<"boreal", "mineral", l>> \in table}

(***************************************************************************)
(* Emission: the base class.                                               *)
(***************************************************************************)
NoObj == [gas |-> "none"]
NoArg == "None"

\* The preinund_area argument is Optional[float]: <<>> for None and <<a>>
\* for the area a.
\* Emission.__init__: the pre-impoundment area is taken from the catchment
\* when the argument is None; the attribute is assigned on that branch only,
\* so reading it after an explicit argument raises AttributeError.
Emission_preinund_area(catchment, preinund_area) ==
    IF preinund_area = <<>> THEN Num(catchment.river_area)
    ELSE Err("AttributeError")

Emission_init_warnings(catchment, reservoir, preinund_area) ==
    IF preinund_area = <<>> /\ catchment.river_area > reservoir.area
    THEN {"Pre impoundment area larger than the reservoir area."}
    ELSE {}

\* None, an area below every reservoir area and one above every reservoir
\* area.
PreinundArgs == {<<>>, <<2>>, <<20>>}

(***************************************************************************)
(* CarbonDioxideEmission.                                                  *)
(***************************************************************************)
Min(a, b) == IF a < b THEN a ELSE b

\* The loop shared by the two pre_impoundment methods: one emission term
\* per (land use, area fraction) pair whose land use the table supports.
landuse_emissions(o, gas) ==
    LET fractions == o.reservoir.area_fractions
        n == Min(Len(_list_of_landuses), Len(fractions))
        supported == supported_landuses(o.pre_impoundment_table)
        kept == SelectSeq([i \in 1..n |-> i],
                          LAMBDA i : _list_of_landuses[i] \in supported)
        area_landuse(i) ==
            Mul(Mul(Num(100), Num(o.reservoir.area)), Num(fractions[i]))
        coeff(i) ==
            Coeff(gas, o.pre_impoundment_table, o.catchment.climate,
                  o.catchment.soil_type, _list_of_landuses[i])
    IN  [k \in 1..Len(kept) |->
            IF IsErr(coeff(kept[k])) THEN coeff(kept[k])
            ELSE Mul(area_landuse(kept[k]), coeff(kept[k]))]

CO2_reservoir_tp(o) ==
    IF Key("CALCULATIONS", "ret_coeff_method") \notin o.config
    THEN Err("KeyError")
    ELSE Reservoir_reservoir_tp(
             o.catchment.inflow_p_conc[MethodKey(o.p_calc_method)])

CO2_pre_impoundment(o) ==
    LET emissions == landuse_emissions(o, "co2")
        tot_emission ==
            IF IsErr(FirstErr(emissions)) THEN FirstErr(emissions)
            ELSE Sum(emissions)
        c_co2_ratio == Div(o.par["weight_C"], o.par["weight_CO2"])
    IN  Mul(Div(Mul(Div(tot_emission, Num(o.reservoir.area)), Num(1)),
                c_co2_ratio),
            o.par["co2_gwp100"])

\* Mutant: a horizon other than 100 selects a GWP of its own.
Mut_CO2_gwp(o, time_horizon) ==
    IF time_horizon # 100
    THEN Mul(o.par["co2_gwp100"], Num(time_horizon))
    ELSE o.par["co2_gwp100"]

\* The GWP selected for a time horizon: both branches take co2_gwp100.
CO2_gwp(o, time_horizon) ==
    IF time_horizon # 100 THEN o.par["co2_gwp100"] ELSE o.par["co2_gwp100"]

CO2_diffusion_flux(o, year, time_horizon) ==
    LET gwp == CO2_gwp(o, time_horizon)
        exponent ==
            Add(Add(Add(Add(Add(
                o.par["k1_diff"],
                Mul(Log10(Num(year)), o.par["k2_diff"])),
                Mul(Num(o.eff_temp), o.par["k3_diff"])),
                Mul(Log10(Num(o.reservoir.area)), o.par["k4_diff"])),
                Mul(Num(o.reservoir.soil_carbon), o.par["k5_diff"])),
                Mul(Log10(CO2_reservoir_tp(o)), o.par["k6_diff"]))
    IN  Mul(Mul(Mul(Div(Div(Mul(gwp, o.par["weight_CO2"]),
                            o.par["weight_C"]), Num(1000)),
                    Lit("365.25")),
                Pow(Lit("10.0"), exponent)),
            Sub(Num(1), Div(o.preinund_area, Num(o.reservoir.area))))

CO2_diffusion_flux_int(o, number_of_years) ==
    LET k7p1 == Add(o.par["k7_diff"], Num(1))
    IN  Div(Mul(CO2_diffusion_flux(o, 1, number_of_years),
                Sub(Pow(Num(number_of_years), k7p1),
                    Pow(Lit("0.5"), k7p1))),
            Mul(k7p1, Sub(Num(number_of_years), Lit("0.5"))))

\* Mutant: the baseline taken at year 1.
Mut_CO2_diffusion_flux_nonanthro(o) == CO2_diffusion_flux(o, 1, 100)

CO2_diffusion_flux_nonanthro(o) == CO2_diffusion_flux(o, 100, 100)

\* Mutant: the fluxes in reverse order of the years.
Mut_CO2_diffusion_flux_profile(o, years) ==
    [i \in 1..Len(years) |->
        CO2_diffusion_flux(o, years[Len(years) + 1 - i], 100)]

CO2_diffusion_flux_profile(o, years) ==
    [i \in 1..Len(years) |-> CO2_diffusion_flux(o, years[i], 100)]

\* Mutant: the baseline taken at the end of the horizon rather than at
\* year 100.
Mut_CO2_net_total(o, number_of_years) ==
    Sub(CO2_diffusion_flux_int(o, number_of_years),
        CO2_diffusion_flux(o, number_of_years, 100))

CO2_net_total(o, number_of_years) ==
    Sub(CO2_diffusion_flux_int(o, number_of_years),
        CO2_diffusion_flux_nonanthro(o))

\* The list profile() returns, or the exception it raises: the three parts
\* are computed in this order.
CO2_profile(o, years) ==
    LET pre_impoundment == CO2_pre_impoundment(o)
        non_anthro == CO2_diffusion_flux_nonanthro(o)
        diffusion_flux_profile == CO2_diffusion_flux_profile(o, years)
        first == FirstErr(<<pre_impoundment, non_anthro>>
                          \o diffusion_flux_profile)
    IN  IF IsErr(first) THEN Raised(first)
        ELSE RetList([i \in 1..Len(years) |->
                 Sub(Sub(diffusion_flux_profile[i], non_anthro),
                     pre_impoundment)])

CO2_factor(o, number_of_years) ==
    LET net_total_emission == CO2_net_total(o, number_of_years)
        pre_impoundment_emission == CO2_pre_impoundment(o)
    IN  Sub(net_total_emission, pre_impoundment_emission)

\* Mutant: the yearly total computed from the net total, the pre-impoundment
\* emission forgotten.
Mut_CO2_total_emission_per_year(o, number_of_years) ==
    Mul(CO2_net_total(o, number_of_years), Num(o.reservoir.area))

CO2_total_emission_per_year(o, number_of_years) ==
    Mul(CO2_factor(o, number_of_years), Num(o.reservoir.area))

CO2_total_lifetime_emission(o, number_of_years) ==
    Div(Mul(CO2_total_emission_per_year(o, number_of_years),
            Num(number_of_years)),
        Num(1000))

(***************************************************************************)
(* MethaneEmission.                                                        *)
(***************************************************************************)
CH4_pre_impoundment(o) ==
    LET land == landuse_emissions(o, "ch4")
        emissions ==
            Append(land,
                   Mul(Mul(Num(o.reservoir.ch4_preemission_factor),
                           Num(o.reservoir.area)), Num(100)))
        ch4_co2_ratio == Div(o.par["weight_CH4"], o.par["weight_CO2"])
    IN  IF IsErr(FirstErr(land)) THEN FirstErr(land)
        ELSE Mul(Div(Mul(Mul(Div(Sum(emissions), Num(o.reservoir.area)),
                             Lit("1e-3")), Num(1)),
                     ch4_co2_ratio),
                 o.par["ch4_gwp100"])

\* The GWP selected for a time horizon: both branches take ch4_gwp100.
CH4_gwp(o, time_horizon) ==
    IF time_horizon # 100 THEN o.par["ch4_gwp100"] ELSE o.par["ch4_gwp100"]

\* year is Optional[int], <<>> for None and <<y>> for y; it takes no part
\* in the result.
CH4_ebullition_flux(o, year, time_horizon) ==
    LET gwp == CH4_gwp(o, time_horizon)
        littoral_perc == Num(o.reservoir.littoral_area_frac)
        emission_in_ch4 ==
            Pow(Num(10),
                Add(Add(o.par["k1_ebull"],
                        Mul(o.par["k2_ebull"],
                            Log10(Div(littoral_perc, Lit("100.0"))))),
                    Mul(o.par["k3_ebull"], Num(o.reservoir.global_radiance))))
        co2_c_ratio == Div(o.par["weight_CH4"], o.par["weight_C"])
    IN  Div(Mul(Mul(Mul(Mul(emission_in_ch4, Num(365)), co2_c_ratio), gwp),
                Num(1)),
            Num(1000))

CH4_ebullition_flux_int(o, time_horizon) ==
    CH4_ebullition_flux(o, <<>>, time_horizon)

\* Mutant: a profile that scales the scalar by the year.
Mut_CH4_ebullition_flux_profile(o, years) ==
    [i \in 1..Len(years) |->
        Mul(CH4_ebullition_flux_int(o, 100), Num(years[i]))]

CH4_ebullition_flux_profile(o, years) ==
    [i \in 1..Len(years) |-> CH4_ebullition_flux_int(o, 100)]

CH4_diffusion_flux(o, year, time_horizon) ==
    LET gwp == CH4_gwp(o, time_horizon)
        littoral_perc == Num(o.reservoir.littoral_area_frac)
        eff_temp == Num(o.monthly_temp)
        aux_var_1 == Mul(o.par["k2_diff"], Num(year))
        aux_var_2 == Mul(o.par["k3_diff"],
                         Log10(Div(littoral_perc, Lit("100.0"))))
        aux_var_3 == Mul(o.par["k4_diff"], eff_temp)
    IN  Div(Mul(Mul(Div(Mul(Pow(Num(10),
                                Add(Add(Add(o.par["k1_diff"], aux_var_1),
                                        aux_var_2), aux_var_3)),
                            o.par["weight_CH4"]),
                        o.par["weight_C"]),
                    gwp),
                Num(365)),
            Num(1000))

CH4_diffusion_flux_int(o, time_horizon) ==
    LET aux1 == CH4_diffusion_flux(o, 1, time_horizon)
    IN  Div(Mul(aux1,
                Sub(Num(1),
                    Pow(Num(10), Mul(o.par["k2_diff"], Num(time_horizon))))),
            Mul(Mul(Neg(o.par["k2_diff"]), Num(time_horizon)), Ln(Num(10))))

CH4_diffusion_flux_profile(o, years) ==
    [i \in 1..Len(years) |-> CH4_diffusion_flux(o, years[i], 100)]

\* Mutant: an intake at the thermocline counted as below it.
Mut_deep_water_intake(o) ==
    o.reservoir.water_intake_depth >= o.reservoir.thermocline_depth

\* water_intake_depth > thermocline_depth(wind_speed=mean_monthly_windspeed)
deep_water_intake(o) ==
    o.reservoir.water_intake_depth > o.reservoir.thermocline_depth

CH4_degassing_flux_int(o, time_horizon) ==
    LET gwp == CH4_gwp(o, time_horizon)
        ch4_conc_diff ==
            Pow(Num(10),
                Add(Add(o.par["k1_degas"],
                        Mul(o.par["k2_degas"],
                            Log10(Num(o.reservoir.residence_time)))),
                    Mul(o.par["k3_degas"],
                        Log10(CH4_diffusion_flux_int(o, time_horizon)))))
        ch4_out_flux ==
            Mul(Mul(Mul(Lit("0.9"), Lit("1e-6")), ch4_conc_diff),
                Num(o.reservoir.discharge))
    IN  IF deep_water_intake(o)
        THEN Div(Mul(Div(Mul(ch4_out_flux, o.par["weight_CH4"]),
                         o.par["weight_C"]), gwp),
                 Num(o.reservoir.area))
        ELSE Zero

CH4_degassing_flux(o, year, time_horizon) ==
    LET k4_degas == o.par["k4_degas"]
        init_flux ==
            Div(Mul(CH4_degassing_flux_int(o, time_horizon),
                    Mul(Mul(Neg(k4_degas), Ln(Num(10))), Num(time_horizon))),
                Sub(Num(1), Pow(Num(10), Mul(Num(time_horizon), k4_degas))))
    IN  Mul(init_flux, Exp(Mul(Mul(k4_degas, Ln(Num(10))), Num(year))))

\* Mutant: the integral in place of the flux of each year.
Mut_CH4_degassing_flux_profile(o, years) ==
    [i \in 1..Len(years) |-> CH4_degassing_flux_int(o, 100)]

CH4_degassing_flux_profile(o, years) ==
    [i \in 1..Len(years) |-> CH4_degassing_flux(o, years[i], 100)]

\* Mutant: the degassing integral left at its default horizon.
Mut_CH4_factor(o, number_of_years) ==
    Sub(Add(Add(CH4_diffusion_flux_int(o, number_of_years),
                CH4_ebullition_flux_int(o, number_of_years)),
            CH4_degassing_flux_int(o, 100)),
        CH4_pre_impoundment(o))

CH4_factor(o, number_of_years) ==
    Sub(Add(Add(CH4_diffusion_flux_int(o, number_of_years),
                CH4_ebullition_flux_int(o, number_of_years)),
            CH4_degassing_flux_int(o, number_of_years)),
        CH4_pre_impoundment(o))

\* np.sum(axis=0) adds the four rows in order; the exception raised, if
\* any, is that of the first row that fails to build.
CH4_profile(o, years) ==
    LET diff_profile == CH4_diffusion_flux_profile(o, years)
        ebull_profile == CH4_ebullition_flux_profile(o, years)
        deg_profile == CH4_degassing_flux_profile(o, years)
        pre_impound_profile ==
            [i \in 1..Len(years) |-> Neg(CH4_pre_impoundment(o))]
        first == FirstErr(diff_profile
                          \o <<CH4_ebullition_flux_int(o, 100)>>
                          \o deg_profile \o pre_impound_profile)
    IN  IF IsErr(first) THEN Raised(first)
        ELSE RetList([i \in 1..Len(years) |->
                 Add(Add(Add(diff_profile[i], ebull_profile[i]),
                         deg_profile[i]),
                     pre_impound_profile[i])])

CH4_total_emission_per_year(o, number_of_years) ==
    Mul(CH4_factor(o, number_of_years), Num(o.reservoir.area))

CH4_total_lifetime_emission(o, number_of_years) ==
    Div(Mul(CH4_total_emission_per_year(o, number_of_years),
            Num(number_of_years)),
        Num(1000))

(***************************************************************************)
(* NitrousOxideEmission.                                                   *)
(***************************************************************************)
available_models == {"model_1", "model_2"}
Erf(a) == Una("erf", a)

N2O_total_to_unit(o, emission) ==
    Div(Div(emission, o.par["weight_N"]), Num(o.reservoir.area))

\* Mutant: the saturation coefficient without the clamp at 0.
Mut_N2O_mu_coeff(o) ==
    Erf(Div(Sub(Num(o.reservoir.residence_time), Lit("0.028")), Lit("0.04")))

\* max(0, erf(x)) with x = (residence_time - 0.028) / 0.04: erf(x) > 0
\* exactly when x > 0, and an integer residence time exceeds 0.028 exactly
\* when it is at least 1.
N2O_mu_coeff(o) ==
    IF o.reservoir.residence_time >= 1
    THEN Erf(Div(Sub(Num(o.reservoir.residence_time), Lit("0.028")),
                 Lit("0.04")))
    ELSE Zero

N2O_tn_fixation_load(o) ==
    LET tp_load_annual ==
            Num(o.catchment.phosphorus_load[MethodKey(o.p_export_model)])
        tn_load_annual == Num(o.catchment.nitrogen_load)
        mu_coeff == N2O_mu_coeff(o)
        tn_tp_ratio ==
            Div(Div(tn_load_annual, o.par["weight_N"]),
                Div(tp_load_annual, o.par["weight_P"]))
        tn_fix_percent ==
            Mul(Div(Lit("37.2"),
                    Add(Num(1),
                        Exp(Sub(Mul(Lit("0.5"), tn_tp_ratio), Lit("6.877"))))),
                mu_coeff)
    IN  Mul(Mul(Lit("0.01"), tn_fix_percent), tn_load_annual)

N2O_n2o_denitrification_m1(o) ==
    Mul(Mul(Lit("0.009"),
            Add(Num(o.catchment.nitrogen_load), N2O_tn_fixation_load(o))),
        Mul(Lit("0.3833"),
            Erf(Mul(Lit("0.4723"), Num(o.reservoir.residence_time)))))

N2O_n2o_nitrification_m1(o) ==
    Mul(Mul(Lit("0.009"),
            Add(Num(o.catchment.nitrogen_load), N2O_tn_fixation_load(o))),
        Mul(Lit("0.5144"),
            Erf(Mul(Lit("0.3692"), Num(o.reservoir.residence_time)))))

\* TN loading (catchment + fixation) less burial and denitrification.
N2O_nitrogen_downstream_load(o) ==
    LET tn_burial_factor ==
            Mul(Lit("0.51"),
                Erf(Mul(Lit("0.4723"), Num(o.reservoir.residence_time))))
        tn_denitr_factor ==
            Mul(Lit("0.3833"),
                Erf(Mul(Lit("0.4723"), Num(o.reservoir.residence_time))))
        tn_loading ==
            Add(Num(o.catchment.nitrogen_load), N2O_tn_fixation_load(o))
        tn_burial == Mul(tn_burial_factor, tn_loading)
        tn_denitr == Mul(tn_denitr_factor, tn_loading)
    IN  Sub(Sub(tn_loading, tn_burial), tn_denitr)

\* weight_N * (1 + weight_O / (2 * weight_N)) * nitrous_gwp100 * unit * 10**(-3)
N2O_to_co2(o, unit_n2o_emission) ==
    Mul(Mul(Mul(Mul(o.par["weight_N"],
                    Add(Num(1),
                        Div(o.par["weight_O"],
                            Mul(Num(2), o.par["weight_N"])))),
                o.par["nitrous_gwp100"]),
            unit_n2o_emission),
        Pow(Num(10), Num(-3)))

N2O_n2o_emission_m1_co2(o) ==
    LET total_n2o_emission ==
            Add(N2O_n2o_denitrification_m1(o), N2O_n2o_nitrification_m1(o))
        unit_n2o_emission == N2O_total_to_unit(o, total_n2o_emission)
    IN  N2O_to_co2(o, unit_n2o_emission)

N2O_n2o_emission_m2_n(o) ==
    Mul(Num(o.catchment.nitrogen_load),
        Mul(Lit("0.002277"),
            Erf(Mul(Lit("1.63"), Num(o.reservoir.residence_time)))))

N2O_unit_n2o_emission_m2(o) ==
    N2O_total_to_unit(o, N2O_n2o_emission_m2_n(o))

N2O_n2o_emission_m2_co2(o) == N2O_to_co2(o, N2O_unit_n2o_emission_m2(o))

\* Mutant: an unrecognised name falls back to the model of the object, as
\* it does at construction.
Mut_N2O_factor_fallback(o, number_of_years, mean, model) ==
    LET m == IF model \notin available_models THEN o.model ELSE model
    IN  IF mean
        THEN Mul(Lit("0.5"),
                 Add(N2O_n2o_emission_m1_co2(o), N2O_n2o_emission_m2_co2(o)))
        ELSE IF m = "model_1" THEN N2O_n2o_emission_m1_co2(o)
        ELSE N2O_n2o_emission_m2_co2(o)

\* Mutant: the mean is the sum of the two models, the 0.5 forgotten.
Mut_N2O_factor_mean(o, number_of_years, mean, model) ==
    LET m == IF model = NoArg \/ model = "" THEN o.model ELSE model
    IN  IF m \notin available_models THEN Err("WrongN2OModelError")
        ELSE IF mean
        THEN Add(N2O_n2o_emission_m1_co2(o), N2O_n2o_emission_m2_co2(o))
        ELSE IF m = "model_1" THEN N2O_n2o_emission_m1_co2(o)
        ELSE N2O_n2o_emission_m2_co2(o)

\* Mutant: the emission scaled by the horizon over the default horizon.
Mut_N2O_factor_horizon(o, number_of_years, mean, model) ==
    LET m == IF model = NoArg \/ model = "" THEN o.model ELSE model
        scale(x) == IF number_of_years = 666 THEN x
                    ELSE Div(Mul(x, Num(number_of_years)), Num(666))
    IN  IF m \notin available_models THEN Err("WrongN2OModelError")
        ELSE IF mean
        THEN scale(Mul(Lit("0.5"),
                       Add(N2O_n2o_emission_m1_co2(o),
                           N2O_n2o_emission_m2_co2(o))))
        ELSE IF m = "model_1" THEN scale(N2O_n2o_emission_m1_co2(o))
        ELSE scale(N2O_n2o_emission_m2_co2(o))

\* Mutant: the mean taken only when model_1 is selected, and an empty model
\* argument refused.
Mut_N2O_factor_select(o, number_of_years, mean, model) ==
    LET m == IF model = NoArg THEN o.model ELSE model
    IN  IF m \notin available_models THEN Err("WrongN2OModelError")
        ELSE IF mean /\ m = "model_1"
        THEN Mul(Lit("0.5"),
                 Add(N2O_n2o_emission_m1_co2(o), N2O_n2o_emission_m2_co2(o)))
        ELSE IF m = "model_1" THEN N2O_n2o_emission_m1_co2(o)
        ELSE N2O_n2o_emission_m2_co2(o)

\* factor(number_of_years, mean, model); model is NoArg, "" or a name.
N2O_factor(o, number_of_years, mean, model) ==
    LET m == IF model = NoArg \/ model = "" THEN o.model ELSE model
    IN  IF m \notin available_models THEN Err("WrongN2OModelError")
        ELSE IF mean
        THEN Mul(Lit("0.5"),
                 Add(N2O_n2o_emission_m1_co2(o), N2O_n2o_emission_m2_co2(o)))
        ELSE IF m = "model_1" THEN N2O_n2o_emission_m1_co2(o)
        ELSE N2O_n2o_emission_m2_co2(o)

\* [self.factor()] * len(years): factor() is evaluated once, whatever the
\* length.
\* Mutant: the profile of model_1 whatever model was selected.
Mut_N2O_profile(o, years) ==
    LET f == N2O_factor(o, 666, FALSE, "model_1")
    IN  IF IsErr(f) THEN Raised(f)
        ELSE RetList([i \in 1..Len(years) |-> f])

N2O_profile(o, years) ==
    LET f == N2O_factor(o, 666, FALSE, NoArg)
    IN  IF IsErr(f) THEN Raised(f)
        ELSE RetList([i \in 1..Len(years) |-> f])

N2O_total_emission_per_year(o, number_of_years) ==
    Mul(N2O_factor(o, number_of_years, FALSE, NoArg), Num(o.reservoir.area))

\* Mutant: the lifetime fixed at 100 years.
Mut_N2O_total_lifetime_emission(o, number_of_years) ==
    Div(Mul(N2O_total_emission_per_year(o, number_of_years), Num(100)),
        Num(1000))

N2O_total_lifetime_emission(o, number_of_years) ==
    Div(Mul(N2O_total_emission_per_year(o, number_of_years),
            Num(number_of_years)),
        Num(1000))

(***************************************************************************)
(* The Emission contract, dispatched on the concrete class.                *)
(***************************************************************************)
profile(o, years) ==
    CASE o.gas = "co2" -> CO2_profile(o, years)
      [] o.gas = "ch4" -> CH4_profile(o, years)
      [] o.gas = "n2o" -> N2O_profile(o, years)

factor(o, number_of_years) ==
    CASE o.gas = "co2" -> CO2_factor(o, number_of_years)
      [] o.gas = "ch4" -> CH4_factor(o, number_of_years)
      [] o.gas = "n2o" -> N2O_factor(o, number_of_years, FALSE, NoArg)

total_emission_per_year(o, number_of_years) ==
    CASE o.gas = "co2" -> CO2_total_emission_per_year(o, number_of_years)
      [] o.gas = "ch4" -> CH4_total_emission_per_year(o, number_of_years)
      [] o.gas = "n2o" -> N2O_total_emission_per_year(o, number_of_years)

total_lifetime_emission(o, number_of_years) ==
    CASE o.gas = "co2" -> CO2_total_lifetime_emission(o, number_of_years)
      [] o.gas = "ch4" -> CH4_total_lifetime_emission(o, number_of_years)
      [] o.gas = "n2o" -> N2O_total_lifetime_emission(o, number_of_years)

pre_impoundment(o) ==
    IF o.gas = "co2" THEN CO2_pre_impoundment(o) ELSE CH4_pre_impoundment(o)

diffusion_flux(o, year, time_horizon) ==
    IF o.gas = "co2" THEN CO2_diffusion_flux(o, year, time_horizon)
    ELSE CH4_diffusion_flux(o, year, time_horizon)

diffusion_flux_int(o, n) ==
    IF o.gas = "co2" THEN CO2_diffusion_flux_int(o, n)
    ELSE CH4_diffusion_flux_int(o, n)

\* The warning every GWP selection logs for a horizon other than 100.
HorizonWarning(time_horizon) ==
    IF time_horizon # 100
    THEN {"Currently, the tool supports time horizon of 100 years only."}
    ELSE {}

(***************************************************************************)
(* Inputs of the calls.                                                    *)
(***************************************************************************)
YearVals == {1, 5, 100}
AnyYear == YearVals \cup {0, -1}
Horizons == {1, 50, 100}
EffTemps == {0, 20}
PCalcMethods == {"g-res", "mcdowell", "other"}
ModelNames == {"model_1", "model_2", "bogus"}
PExportModels == {"g-res", "mcdowell"}

RECURSIVE SeqsUpTo(_, _)
SeqsUpTo(S, n) ==
    IF n = 0 THEN {<<>>}
    ELSE LET shorter == SeqsUpTo(S, n - 1)
         IN  shorter \cup {Append(q, x) : q \in shorter, x \in S}
YearTuples == SeqsUpTo(YearVals, MaxLen)

\* No table: the state of the HEET parsers while a gas model is assessed.
NoTable == [columns |-> <<>>, rows |-> <<>>]

(***************************************************************************)
(* Construction.  One model object is built per assessment and then        *)
(* queried; a construction that raised leaves no object and may be tried   *)
(* again.                                                                  *)
(***************************************************************************)
Built(o, warnings) ==
    /\ obj' = o
    /\ ret' = [kind |-> "obj", val |-> Zero]
    /\ logged' = warnings
    /\ UNCHANGED heet

Failed(e, warnings) ==
    /\ obj' = NoObj
    /\ ret' = Raised(e)
    /\ logged' = warnings
    /\ UNCHANGED heet

\* Mutant: the method is stored as given.
Mut_CO2_init_p_calc_method(p_calc_method) == p_calc_method

\* CarbonDioxideEmission.__init__: a method outside avail_p_calc_methods is
\* replaced by 'g-res'.
CO2_init_p_calc_method(p_calc_method) ==
    IF p_calc_method \notin {"g-res", "mcdowell"} THEN "g-res"
    ELSE p_calc_method

\* Mutant: the model is stored as given.
Mut_N2O_init_model(model) == model

\* NitrousOxideEmission.__init__: a model outside available_models is
\* replaced by 'model_1'.
N2O_init_model(model) ==
    IF model \notin available_models THEN "model_1" ELSE model

NewCarbonDioxideEmission ==
    /\ obj.gas = "none"
    /\ \E catchment \in Catchments,
       reservoir \in Reservoirs \cup DegenerateReservoirs,
       eff_temp \in EffTemps, p_calc_method \in PCalcMethods,
       preinund_area \in PreinundArgs, config \in Configs,
       table \in read_table :
        LET area == Emission_preinund_area(catchment, preinund_area)
            base == Emission_init_warnings(catchment, reservoir, preinund_area)
            valid == p_calc_method \in {"g-res", "mcdowell"}
            warnings ==
                base \cup (IF valid THEN {}
                           ELSE {"Invalid P calculation method."})
            par == _par_from_config(config, CO2_list_of_constants,
                                    "CARBON_DIOXIDE")
        IN  /\ op' = "CarbonDioxideEmission"
            /\ args' = [catchment |-> catchment.name,
                        reservoir |-> reservoir.name, eff_temp |-> eff_temp,
                        p_calc_method |-> p_calc_method,
                        preinund_area |-> preinund_area, config |-> config]
            /\ IF IsErr(area) THEN Failed(area, {})
               ELSE IF IsErr(ParError(par)) THEN Failed(ParError(par), warnings)
               ELSE Built([gas |-> "co2", catchment |-> catchment,
                           reservoir |-> reservoir, config |-> config,
                           preinund_area |-> area, par |-> par,
                           pre_impoundment_table |-> table,
                           eff_temp |-> eff_temp,
                           p_calc_method |->
                               CO2_init_p_calc_method(p_calc_method),
                           monthly_temp |-> NoArg, model |-> NoArg,
                           p_export_model |-> NoArg], warnings)

NewMethaneEmission ==
    /\ obj.gas = "none"
    /\ \E catchment \in Catchments, reservoir \in Reservoirs,
       monthly_temp \in EffTemps,
       preinund_area \in PreinundArgs, config \in Configs,
       table \in read_table :
        LET area == Emission_preinund_area(catchment, preinund_area)
            warnings ==
                Emission_init_warnings(catchment, reservoir, preinund_area)
            par == _par_from_config(config, CH4_par_list, "METHANE")
        IN  /\ op' = "MethaneEmission"
            /\ args' = [catchment |-> catchment.name,
                        reservoir |-> reservoir.name,
                        monthly_temp |-> monthly_temp,
                        preinund_area |-> preinund_area, config |-> config]
            /\ IF IsErr(area) THEN Failed(area, {})
               ELSE IF IsErr(ParError(par)) THEN Failed(ParError(par), warnings)
               ELSE Built([gas |-> "ch4", catchment |-> catchment,
                           reservoir |-> reservoir, config |-> config,
                           preinund_area |-> area, par |-> par,
                           pre_impoundment_table |-> table,
                           eff_temp |-> NoArg, p_calc_method |-> NoArg,
                           monthly_temp |-> monthly_temp, model |-> NoArg,
                           p_export_model |-> NoArg], warnings)

NewNitrousOxideEmission ==
    /\ obj.gas = "none"
    /\ \E catchment \in Catchments, reservoir \in Reservoirs,
       model \in ModelNames, p_export_model \in PExportModels,
       preinund_area \in PreinundArgs, config \in Configs :
        LET area == Emission_preinund_area(catchment, preinund_area)
            valid == model \in available_models
            first == IF valid THEN {} ELSE {"Model unknown."}
            warnings ==
                first \cup
                Emission_init_warnings(catchment, reservoir, preinund_area)
            par == _par_from_config(config, N2O_par_list, "NITROUS_OXIDE")
        IN  /\ op' = "NitrousOxideEmission"
            /\ args' = [catchment |-> catchment.name,
                        reservoir |-> reservoir.name, model |-> model,
                        p_export_model |-> p_export_model,
                        preinund_area |-> preinund_area, config |-> config]
            /\ IF IsErr(area) THEN Failed(area, first)
               ELSE IF IsErr(ParError(par)) THEN Failed(ParError(par), warnings)
               ELSE Built([gas |-> "n2o", catchment |-> catchment,
                           reservoir |-> reservoir, config |-> config,
                           preinund_area |-> area, par |-> par,
                           pre_impoundment_table |-> NoArg,
                           eff_temp |-> NoArg, p_calc_method |-> NoArg,
                           monthly_temp |-> NoArg,
                           model |-> N2O_init_model(model),
                           p_export_model |-> p_export_model], warnings)

(***************************************************************************)
(* Queries on the constructed model.                                       *)
(***************************************************************************)
\* Mutant: a query that overwrites the pre-impoundment area it has read.
Mut_Query(name, a, result, warnings) ==
    /\ op' = name
    /\ args' = a
    /\ ret' = result
    /\ logged' = warnings
    /\ obj' = [obj EXCEPT !.preinund_area = Zero,
                          !.reservoir.water_intake_depth = 0]
    /\ UNCHANGED heet

Query(name, a, result, warnings) ==
    /\ op' = name
    /\ args' = a
    /\ ret' = result
    /\ logged' = warnings
    /\ UNCHANGED <<obj, heet>>

Profile ==
    /\ obj.gas # "none"
    /\ \E years \in YearTuples :
          Query("profile", [years |-> years], profile(obj, years), {})

Factor ==
    /\ obj.gas # "none"
    /\ \E n \in Horizons :
          Query("factor", [number_of_years |-> n], RetNum(factor(obj, n)),
                IF obj.gas = "n2o" THEN {} ELSE HorizonWarning(n))

TotalEmissionPerYear ==
    /\ obj.gas # "none"
    /\ \E n \in Horizons :
          Query("total_emission_per_year", [number_of_years |-> n],
                RetNum(total_emission_per_year(obj, n)),
                IF obj.gas = "n2o" THEN {} ELSE HorizonWarning(n))

TotalLifetimeEmission ==
    /\ obj.gas # "none"
    /\ \E n \in Horizons :
          Query("total_lifetime_emission", [number_of_years |-> n],
                RetNum(total_lifetime_emission(obj, n)),
                IF obj.gas = "n2o" THEN {} ELSE HorizonWarning(n))

PreImpoundment ==
    /\ obj.gas \in {"co2", "ch4"}
    /\ Query("pre_impoundment", [none |-> NoArg],
             RetNum(pre_impoundment(obj)), {})

DiffusionFlux ==
    /\ obj.gas \in {"co2", "ch4"}
    /\ \E year \in AnyYear, time_horizon \in Horizons :
          Query("diffusion_flux",
                [year |-> year, time_horizon |-> time_horizon],
                RetNum(diffusion_flux(obj, year, time_horizon)),
                HorizonWarning(time_horizon))

DiffusionFluxInt ==
    /\ obj.gas \in {"co2", "ch4"}
    /\ \E n \in Horizons :
          Query("diffusion_flux_int", [number_of_years |-> n],
                RetNum(diffusion_flux_int(obj, n)), HorizonWarning(n))

DiffusionFluxNonanthro ==
    /\ obj.gas = "co2"
    /\ Query("diffusion_flux_nonanthro", [none |-> NoArg],
             RetNum(CO2_diffusion_flux_nonanthro(obj)), {})

EbullitionFlux ==
    /\ obj.gas = "ch4"
    /\ \E year \in {<<>>} \cup {<<y>> : y \in AnyYear},
          time_horizon \in Horizons :
          Query("ebullition_flux",
                [year |-> year, time_horizon |-> time_horizon],
                RetNum(CH4_ebullition_flux(obj, year, time_horizon)),
                HorizonWarning(time_horizon) \cup
                (IF year = <<>> THEN {}
                 ELSE {"Ebullition is not time-dependent."}))

EbullitionFluxInt ==
    /\ obj.gas = "ch4"
    /\ \E time_horizon \in Horizons :
          Query("ebullition_flux_int", [time_horizon |-> time_horizon],
                RetNum(CH4_ebullition_flux_int(obj, time_horizon)),
                HorizonWarning(time_horizon))

EbullitionFluxProfile ==
    /\ obj.gas = "ch4"
    /\ \E years \in YearTuples :
          Query("_ebullition_flux_profile", [years |-> years],
                IF IsErr(CH4_ebullition_flux_int(obj, 100))
                THEN Raised(CH4_ebullition_flux_int(obj, 100))
                ELSE RetList(CH4_ebullition_flux_profile(obj, years)), {})

DegassingFluxInt ==
    /\ obj.gas = "ch4"
    /\ \E time_horizon \in Horizons :
          Query("degassing_flux_int", [time_horizon |-> time_horizon],
                RetNum(CH4_degassing_flux_int(obj, time_horizon)),
                HorizonWarning(time_horizon))

DegassingFlux ==
    /\ obj.gas = "ch4"
    /\ \E year \in AnyYear, time_horizon \in Horizons :
          Query("degassing_flux",
                [year |-> year, time_horizon |-> time_horizon],
                RetNum(CH4_degassing_flux(obj, year, time_horizon)),
                HorizonWarning(time_horizon))

DegassingFluxProfile ==
    /\ obj.gas = "ch4"
    /\ \E years \in YearTuples :
          Query("_degassing_flux_profile", [years |-> years],
                RetList(CH4_degassing_flux_profile(obj, years)), {})

N2OFactor ==
    /\ obj.gas = "n2o"
    /\ \E n \in Horizons \cup {666}, mean \in BOOLEAN,
          model \in ModelNames \cup {NoArg, ""} :
          Query("n2o_factor",
                [number_of_years |-> n, mean |-> mean, model |-> model],
                RetNum(N2O_factor(obj, n, mean, model)), {})

TnFixationLoad ==
    /\ obj.gas = "n2o"
    /\ Query("tn_fixation_load", [none |-> NoArg],
             RetNum(N2O_tn_fixation_load(obj)), {})

NitrogenDownstreamLoad ==
    /\ obj.gas = "n2o"
    /\ Query("nitrogen_downstream_load", [none |-> NoArg],
             RetNum(N2O_nitrogen_downstream_load(obj)), {})

Init ==
    /\ obj = NoObj
    /\ op = "none"
    /\ args = [none |-> NoArg]
    /\ ret = NoRet
    /\ logged = {}
    /\ data = NoTable
    /\ mandatory_columns = <<>>
    /\ optional_columns = <<>>
    /\ shp_files = <<>>

Next ==
    \/ NewCarbonDioxideEmission
    \/ NewMethaneEmission
    \/ NewNitrousOxideEmission
    \/ Profile
    \/ Factor
    \/ TotalEmissionPerYear
    \/ TotalLifetimeEmission
    \/ PreImpoundment
    \/ DiffusionFlux
    \/ DiffusionFluxInt
    \/ DiffusionFluxNonanthro
    \/ EbullitionFlux
    \/ EbullitionFluxInt
    \/ EbullitionFluxProfile
    \/ DegassingFluxInt
    \/ DegassingFlux
    \/ DegassingFluxProfile
    \/ N2OFactor
    \/ TnFixationLoad
    \/ NitrogenDownstreamLoad

Spec == Init /\ [][Next]_vars

(***************************************************************************)
(* Properties of the Emission contract.                                    *)
(***************************************************************************)
Area == Num(obj.reservoir.area)
Years == args.years

\* C1: for each of the three gas models and every horizon y > 0,
\* total_emission_per_year(y) is factor(y) multiplied by reservoir.area
\* (and raises what factor(y) raises).
C1_TotalPerYearIsFactorTimesArea ==
    op = "total_emission_per_year" =>
        /\ args.number_of_years > 0
        /\ ret = RetNum(Mul(factor(obj, args.number_of_years), Area))

C1_Witness ==
    /\ op = "total_emission_per_year"
    /\ obj.gas = "ch4"
    /\ args.number_of_years = 50
    /\ ret.kind = "num"
    /\ ret.val = <<"mul", factor(obj, 50), Area>>

\* C2: for each of the three gas models and every horizon y > 0,
\* total_lifetime_emission(y) is total_emission_per_year(y) multiplied by y
\* and divided by 1000.
C2_LifetimeIsPerYearTimesYears ==
    op = "total_lifetime_emission" =>
        /\ args.number_of_years > 0
        /\ ret = RetNum(Div(Mul(total_emission_per_year(
                                    obj, args.number_of_years),
                                Num(args.number_of_years)),
                            Num(1000)))

C2_Witness ==
    /\ op = "total_lifetime_emission"
    /\ obj.gas = "n2o"
    /\ args.number_of_years = 50
    /\ ret.kind = "num"
    /\ ret.val[1] = "div"
    /\ ret.val[3] = Num(1000)

\* C3: for every gas model and every tuple of (positive) years, a profile
\* call that returns hands back exactly len(years) values, the i-th being
\* the flux of years[i] alone, in the order of the input; an empty tuple
\* gives an empty list and a repeated year a repeated value.  The call
\* returns whenever the profile of a single year does.
C3_ProfileLengthAndOrder ==
    op = "profile" =>
        /\ profile(obj, <<1>>).kind = "list" => ret.kind = "list"
        /\ ret.kind = "list" =>
              /\ Len(ret.val) = Len(Years)
              /\ \A i \in 1..Len(Years) :
                    /\ profile(obj, <<Years[i]>>).kind = "list"
                    /\ ret.val[i] = profile(obj, <<Years[i]>>).val[1]

C3_Witness ==
    /\ op = "profile"
    /\ obj.gas = "co2"
    /\ Years = <<100, 1>>
    /\ ret.kind = "list"
    /\ Len(ret.val) = 2
    /\ ret.val[1] # ret.val[2]

\* C4: CO2: profile(years)[i] is diffusion_flux(years[i]) minus
\* diffusion_flux_nonanthro() minus pre_impoundment() for every index i,
\* where diffusion_flux_nonanthro() is diffusion_flux(year=100); the call
\* raises only when one of these parts does.
C4_CO2Profile ==
    LET base == CO2_diffusion_flux(obj, 100, 100)
        pre == CO2_pre_impoundment(obj)
        flux(i) == CO2_diffusion_flux(obj, Years[i], 100)
    IN  /\ (op = "diffusion_flux_nonanthro") => ret = RetNum(base)
        /\ (op = "profile" /\ obj.gas = "co2") =>
              IF ret.kind = "list"
              THEN /\ Len(ret.val) = Len(Years)
                   /\ \A i \in 1..Len(Years) :
                         ret.val[i] = Sub(Sub(flux(i), base), pre)
              ELSE /\ ret.kind = "error"
                   /\ \/ IsErr(base)
                      \/ IsErr(pre)
                      \/ \E i \in 1..Len(Years) : IsErr(flux(i))

C4_Witness ==
    /\ op = "profile"
    /\ obj.gas = "co2"
    /\ Years = <<5, 100>>
    /\ ret.kind = "list"
    /\ ret.val[1] = Sub(Sub(CO2_diffusion_flux(obj, 5, 100),
                            CO2_diffusion_flux(obj, 100, 100)),
                        CO2_pre_impoundment(obj))

\* C5: CO2: factor(n) is diffusion_flux_int(n) minus the non-anthropogenic
\* baseline minus pre_impoundment(); the baseline is diffusion_flux(year=100)
\* whatever n is, so only the integral depends on n.
C5_CO2Factor ==
    (op = "factor" /\ obj.gas = "co2") =>
        ret = RetNum(Sub(Sub(CO2_diffusion_flux_int(
                                 obj, args.number_of_years),
                             CO2_diffusion_flux(obj, 100, 100)),
                         CO2_pre_impoundment(obj)))

C5_Witness ==
    /\ op = "factor"
    /\ obj.gas = "co2"
    /\ args.number_of_years = 50
    /\ ret.kind = "num"
    /\ ret.val[2][3] = Neg(CO2_diffusion_flux(obj, 100, 100))

\* C6: CH4: factor(n) is diffusion_flux_int(n) + ebullition_flux_int(n)
\* + degassing_flux_int(n) minus pre_impoundment() for every horizon n.
C6_CH4Factor ==
    (op = "factor" /\ obj.gas = "ch4") =>
        LET n == args.number_of_years
        IN  ret = RetNum(Sub(Add(Add(CH4_diffusion_flux_int(obj, n),
                                     CH4_ebullition_flux_int(obj, n)),
                                 CH4_degassing_flux_int(obj, n)),
                             CH4_pre_impoundment(obj)))

C6_Witness ==
    /\ op = "factor"
    /\ obj.gas = "ch4"
    /\ args.number_of_years = 50
    /\ obj.reservoir.water_intake_depth > obj.reservoir.thermocline_depth
    /\ ret.kind = "num"
    /\ ret.val[2][3] = CH4_degassing_flux_int(obj, 50)
    /\ ret.val[3] = Neg(CH4_pre_impoundment(obj))

\* C7: CH4: profile(years)[i] is diffusion_flux(years[i]) + the ebullition
\* flux + degassing_flux(years[i]) minus pre_impoundment() for every index
\* i: the elementwise sum of the three pathway profiles minus the constant
\* pre-impoundment term.
C7_CH4Profile ==
    (op = "profile" /\ obj.gas = "ch4") =>
        LET pre == CH4_pre_impoundment(obj)
            ebull == CH4_ebullition_flux(obj, <<>>, 100)
            diff(i) == CH4_diffusion_flux(obj, Years[i], 100)
            deg(i) == CH4_degassing_flux(obj, Years[i], 100)
        IN  IF ret.kind = "list"
            THEN /\ Len(ret.val) = Len(Years)
                 /\ \A i \in 1..Len(Years) :
                       ret.val[i] = Sub(Add(Add(diff(i), ebull), deg(i)), pre)
            ELSE /\ ret.kind = "error"
                 /\ \/ IsErr(ebull)
                    \/ \E i \in 1..Len(Years) :
                          IsErr(diff(i)) \/ IsErr(deg(i)) \/ IsErr(pre)

C7_Witness ==
    /\ op = "profile"
    /\ obj.gas = "ch4"
    /\ obj.reservoir.water_intake_depth > obj.reservoir.thermocline_depth
    /\ Years = <<5, 1>>
    /\ ret.kind = "list"
    /\ ret.val[1][2][3] = CH4_degassing_flux(obj, 5, 100)
    /\ ret.val[2][2][3] = CH4_degassing_flux(obj, 1, 100)
    /\ ret.val[1][2][3] # ret.val[2][2][3]

\* C8: CH4 ebullition is time-invariant: every element of the ebullition
\* sub-profile is the scalar ebullition_flux_int(), whatever the requested
\* years, and ebullition_flux(year) returns the same value for every year,
\* year omitted included.
C8_EbullitionTimeInvariant ==
    /\ (op = "_ebullition_flux_profile") =>
          IF ret.kind = "list"
          THEN /\ Len(ret.val) = Len(Years)
               /\ \A i \in 1..Len(Years) :
                     ret.val[i] = CH4_ebullition_flux_int(obj, 100)
          ELSE ret = Raised(CH4_ebullition_flux_int(obj, 100))
    /\ (op = "ebullition_flux") =>
          \A year \in {<<>>} \cup {<<y>> : y \in AnyYear} :
              ret = RetNum(CH4_ebullition_flux(obj, year, args.time_horizon))

C8_Witness ==
    /\ op = "_ebullition_flux_profile"
    /\ Years = <<1, 100>>
    /\ ret.kind = "list"
    /\ ret.val[1] = ret.val[2]
    /\ ret.val[1] = CH4_ebullition_flux(obj, <<5>>, 50)

C10_N2OProfile ==
    (op = "profile" /\ obj.gas = "n2o") =>
        LET f == IF obj.model = "model_1" THEN N2O_n2o_emission_m1_co2(obj)
                 ELSE N2O_n2o_emission_m2_co2(obj)
        IN  IF IsErr(f) THEN ret = Raised(f)
            ELSE /\ ret.kind = "list"
                 /\ Len(ret.val) = Len(Years)
                 /\ \A i \in 1..Len(Years) : ret.val[i] = f

C10_Witness ==
    /\ op = "profile"
    /\ obj.gas = "n2o"
    /\ obj.model = "model_2"
    /\ Years = <<5, 5>>
    /\ ret.kind = "list"
    /\ ret.val = <<N2O_n2o_emission_m2_co2(obj), N2O_n2o_emission_m2_co2(obj)>>
    /\ N2O_n2o_emission_m2_co2(obj) # N2O_n2o_emission_m1_co2(obj)

\* C11: N2O: factor(model=m) with a model name m other than 'model_1' and
\* 'model_2' raises WrongN2OModelError and returns no value, whatever model
\* the object was constructed with and whatever the other arguments.  (An
\* empty name counts as no model argument.)
C11_UnknownModelIsFatal ==
    (/\ op = "n2o_factor"
     /\ args.model \notin available_models \cup {NoArg, ""})
    =>  /\ ret.kind = "error"
        /\ ret.val = Err("WrongN2OModelError")

C11_Witness ==
    /\ op = "n2o_factor"
    /\ args.model = "bogus"
    /\ args.mean
    /\ obj.model = "model_2"
    /\ ret = Raised(Err("WrongN2OModelError"))

\* C12: N2O: factor(mean=True) is 0.5 times the sum of
\* factor(model='model_1') and factor(model='model_2'), and raises what the
\* first of the two that fails raises.
C12_MeanIsHalfTheSum ==
    (/\ op = "n2o_factor"
     /\ args.mean
     /\ args.model \in available_models \cup {NoArg, ""})
    =>  ret = RetNum(Mul(Lit("0.5"),
                         Add(N2O_factor(obj, args.number_of_years, FALSE,
                                        "model_1"),
                             N2O_factor(obj, args.number_of_years, FALSE,
                                        "model_2"))))

C12_Witness ==
    /\ op = "n2o_factor"
    /\ args.mean
    /\ args.model = NoArg
    /\ ret.kind = "num"
    /\ ret.val = <<"mul", Lit("0.5"),
                   <<"add", N2O_n2o_emission_m1_co2(obj),
                            N2O_n2o_emission_m2_co2(obj)>> >>
    /\ N2O_n2o_emission_m1_co2(obj) # N2O_n2o_emission_m2_co2(obj)

\* C13: N2O: the horizon has no effect on the unit flux: whatever the mean
\* and model arguments, the result of factor(n, ...) is the result of
\* factor(n2, ...) for every other horizon n2.
C13_HorizonHasNoEffect ==
    /\ (op = "n2o_factor") =>
          \A n2 \in Horizons \cup {666} :
              ret = RetNum(N2O_factor(obj, n2, args.mean, args.model))
    /\ (op = "factor" /\ obj.gas = "n2o") =>
          \A n2 \in Horizons \cup {666} :
              ret = RetNum(N2O_factor(obj, n2, FALSE, NoArg))

C13_Witness ==
    /\ op = "n2o_factor"
    /\ args.number_of_years = 50
    /\ args.model = "model_2"
    /\ ~args.mean
    /\ ret.kind = "num"
    /\ ret = RetNum(N2O_factor(obj, 666, FALSE, "model_2"))

\* The construction named by args fails for a reason that has nothing to do
\* with the categorical argument: an explicit pre-impoundment area or a
\* constant that cannot be read.
FailsAnyway(list_of_constants, section_name) ==
    \/ args.preinund_area # <<>>
    \/ IsErr(ParError(_par_from_config(args.config, list_of_constants,
                                       section_name)))

\* C14: N2O: a model name outside ('model_1', 'model_2') does not make the
\* construction fail: the object is created exactly when it is with a
\* recognised name, a warning is logged, and it holds model == 'model_1',
\* so the next factor() without a model argument evaluates model_1; the
\* same name passed to factor() is fatal.
C14_ModelFallbackAtConstruction ==
    /\ [](  (/\ op = "NitrousOxideEmission"
              /\ args.model \notin available_models)
          => /\ "Model unknown." \in logged
             /\ IF FailsAnyway(N2O_par_list, "NITROUS_OXIDE")
                THEN /\ ret.kind = "error"
                     /\ ret.val # Err("WrongN2OModelError")
                ELSE /\ ret.kind = "obj"
                     /\ obj.gas = "n2o"
                     /\ obj.model = "model_1")
    /\ [][ (/\ op = "NitrousOxideEmission"
            /\ args.model \notin available_models
            /\ ret.kind = "obj"
            /\ op' = "n2o_factor")
          => /\ (args'.model = NoArg /\ ~args'.mean) =>
                    ret' = RetNum(N2O_n2o_emission_m1_co2(obj))
             /\ (args'.model = args.model) =>
                    ret' = Raised(Err("WrongN2OModelError")) ]_vars

C14_Witness ==
    /\ op = "NitrousOxideEmission"
    /\ args.model = "bogus"
    /\ ret.kind = "obj"
    /\ obj.model = "model_1"
    /\ N2O_factor(obj, 666, FALSE, NoArg) = N2O_n2o_emission_m1_co2(obj)
    /\ N2O_factor(obj, 666, FALSE, "bogus") = Err("WrongN2OModelError")

\* C15: CO2: a phosphorus-calculation method outside ('g-res', 'mcdowell')
\* does not make the construction fail: the object is created exactly when
\* it is with a supported method, a warning is logged, and it holds
\* p_calc_method == 'g-res'; a supported method is stored unchanged; a
\* constructed object always holds one of the two supported methods.
C15_PCalcMethodFallback ==
    /\ (obj.gas = "co2") => obj.p_calc_method \in {"g-res", "mcdowell"}
    /\ (op = "CarbonDioxideEmission") =>
          /\ IF FailsAnyway(CO2_list_of_constants, "CARBON_DIOXIDE")
             THEN ret.kind = "error"
             ELSE ret.kind = "obj" /\ obj.gas = "co2"
          /\ (/\ ret.kind = "obj"
              /\ args.p_calc_method \in {"g-res", "mcdowell"})
             => obj.p_calc_method = args.p_calc_method
          /\ (/\ ret.kind = "obj"
              /\ args.p_calc_method \notin {"g-res", "mcdowell"})
             => /\ obj.p_calc_method = "g-res"
                /\ "Invalid P calculation method." \in logged

C15_Witness ==
    /\ op = "CarbonDioxideEmission"
    /\ args.p_calc_method = "other"
    /\ ret.kind = "obj"
    /\ obj.p_calc_method = "g-res"
    /\ "Invalid P calculation method." \in logged

\* C16: a GWP time horizon other than 100 is accepted without an error of
\* its own (a warning is logged) and resolves to the 100-year GWP: CO2
\* diffusion_flux(year, h), CH4 diffusion_flux(year, h) and CH4
\* ebullition_flux(year, h) return what they return with time_horizon = 100,
\* for every year and every h.
C16_HorizonResolvesTo100 ==
    /\ (op = "diffusion_flux") =>
          ret = RetNum(diffusion_flux(obj, args.year, 100))
    /\ (op = "ebullition_flux") =>
          ret = RetNum(CH4_ebullition_flux(obj, args.year, 100))
    /\ (op \in {"diffusion_flux", "ebullition_flux"}
        /\ args.time_horizon # 100) =>
          HorizonWarning(args.time_horizon) \subseteq logged

C16_Witness ==
    /\ op = "diffusion_flux"
    /\ obj.gas = "co2"
    /\ args.time_horizon = 50
    /\ args.year = 5
    /\ ret.kind = "num"
    /\ ret.val = CO2_diffusion_flux(obj, 5, 100)
    /\ logged # {}

\* The constructor calls, the collaborators a call names and the
\* pre-impoundment area it asks for: the argument, or the catchment's river
\* area when the argument is None.
Constructors ==
    {"CarbonDioxideEmission", "MethaneEmission", "NitrousOxideEmission"}
ArgCatchment == CHOOSE c \in Catchments : c.name = args.catchment
ArgReservoir ==
    CHOOSE r \in Reservoirs \cup DegenerateReservoirs :
        r.name = args.reservoir
RequestedPreinundArea ==
    IF args.preinund_area = <<>> THEN ArgCatchment.river_area
    ELSE args.preinund_area[1]
ConfigReadable ==
    CASE op = "CarbonDioxideEmission" ->
             ~IsErr(ParError(_par_from_config(
                  args.config, CO2_list_of_constants, "CARBON_DIOXIDE")))
      [] op = "MethaneEmission" ->
             ~IsErr(ParError(_par_from_config(
                  args.config, CH4_par_list, "METHANE")))
      [] op = "NitrousOxideEmission" ->
             ~IsErr(ParError(_par_from_config(
                  args.config, N2O_par_list, "NITROUS_OXIDE")))

\* C17: when the pre-impoundment area exceeds the reservoir area, the
\* construction of any gas model (with a readable configuration) still
\* completes, only a warning is logged, the object holds the
\* pre-impoundment area unaltered, and the CO2 flux is computed with it.
C17_LargePreinundAreaIsNotFatal ==
    /\ (/\ op \in Constructors
        /\ ConfigReadable
        /\ RequestedPreinundArea > ArgReservoir.area)
       => /\ ret.kind = "obj"
          /\ "Pre impoundment area larger than the reservoir area."
                 \in logged
          /\ obj.preinund_area = Num(RequestedPreinundArea)
    /\ (/\ op = "diffusion_flux"
        /\ obj.gas = "co2"
        /\ ret.kind = "num")
       => ret.val[3] = Sub(Num(1), Div(obj.preinund_area,
                                       Num(obj.reservoir.area)))

\* The parameter list and the section of each gas model, and whether the
\* configuration of the construction named by args lacks a listed constant.
ListOf(gas) ==
    CASE gas \in {"co2", "CarbonDioxideEmission"} -> CO2_list_of_constants
      [] gas \in {"ch4", "MethaneEmission"} -> CH4_par_list
      [] gas \in {"n2o", "NitrousOxideEmission"} -> N2O_par_list
SectionOf(gas) ==
    CASE gas \in {"co2", "CarbonDioxideEmission"} -> "CARBON_DIOXIDE"
      [] gas \in {"ch4", "MethaneEmission"} -> "METHANE"
      [] gas \in {"n2o", "NitrousOxideEmission"} -> "NITROUS_OXIDE"
LacksConstant ==
    \E n \in ListOf(op) : Key(SectionOf(op), n) \notin args.config

\* C18: when a constant of a gas model's parameter list (or its whole
\* section) is missing from the configuration, the construction of that
\* model fails with an error and produces no object; a constructed model
\* holds a parameter for every listed constant: 11 for CO2, 16 for CH4 and
\* 4 for N2O.
C18_MissingConstantIsFatal ==
    /\ (op \in Constructors /\ LacksConstant) =>
          /\ ret.kind = "error"
          /\ obj.gas = "none"
    /\ (obj.gas # "none") =>
          /\ DOMAIN obj.par = ListOf(obj.gas)
          /\ \A n \in ListOf(obj.gas) :
                obj.par[n] = <<"par", SectionOf(obj.gas), n>>
          /\ Cardinality(DOMAIN obj.par) =
                (CASE obj.gas = "co2" -> 11
                   [] obj.gas = "ch4" -> 16
                   [] obj.gas = "n2o" -> 4)
          /\ \A n \in ListOf(obj.gas) :
                Key(SectionOf(obj.gas), n) \in obj.config

C18_Witness ==
    /\ op = "MethaneEmission"
    /\ Key("METHANE", "k4_degas") \notin args.config
    /\ Key("METHANE", "k1_degas") \in args.config
    /\ args.preinund_area = <<>>
    /\ ret = Raised(Err("NoOptionError"))
    /\ obj.gas = "none"

\* The object with every land use that has no coefficient for the climate
\* and soil type of its catchment taken out of the supported land uses:
\* what skipping these combinations amounts to.
SkippingMissing(o) ==
    LET missing ==
            {l \in TableLanduses :
                <<o.catchment.climate, o.catchment.soil_type, l>>
                    \notin o.pre_impoundment_table}
    IN  [o EXCEPT !.pre_impoundment_table =
            @ \ {<<"boreal", "mineral", l>> : l \in missing}]

\* C19: in CO2 and CH4 pre_impoundment() a (climate, soil type, land-use)
\* combination without a coefficient in the table is skipped: the call
\* never raises and returns the sum over the combinations that have one,
\* for every climate and soil type of the catchment and every land use.
C19_MissingCombinationIsSkipped ==
    (op = "pre_impoundment") =>
        /\ ret.kind = "num"
        /\ ret = RetNum(pre_impoundment(SkippingMissing(obj)))

\* What the call name(a) returns on the object o.
ResultOf(o, name, a) ==
    CASE name = "profile" -> profile(o, a.years)
      [] name = "factor" -> RetNum(factor(o, a.number_of_years))
      [] name = "total_emission_per_year" ->
             RetNum(total_emission_per_year(o, a.number_of_years))
      [] name = "total_lifetime_emission" ->
             RetNum(total_lifetime_emission(o, a.number_of_years))
      [] name = "pre_impoundment" -> RetNum(pre_impoundment(o))
      [] name = "diffusion_flux" ->
             RetNum(diffusion_flux(o, a.year, a.time_horizon))
      [] name = "diffusion_flux_int" ->
             RetNum(diffusion_flux_int(o, a.number_of_years))
      [] name = "diffusion_flux_nonanthro" ->
             RetNum(CO2_diffusion_flux_nonanthro(o))
      [] name = "ebullition_flux" ->
             RetNum(CH4_ebullition_flux(o, a.year, a.time_horizon))
      [] name = "ebullition_flux_int" ->
             RetNum(CH4_ebullition_flux_int(o, a.time_horizon))
      [] name = "_ebullition_flux_profile" ->
             IF IsErr(CH4_ebullition_flux_int(o, 100))
             THEN Raised(CH4_ebullition_flux_int(o, 100))
             ELSE RetList(CH4_ebullition_flux_profile(o, a.years))
      [] name = "degassing_flux_int" ->
             RetNum(CH4_degassing_flux_int(o, a.time_horizon))
      [] name = "degassing_flux" ->
             RetNum(CH4_degassing_flux(o, a.year, a.time_horizon))
      [] name = "_degassing_flux_profile" ->
             RetList(CH4_degassing_flux_profile(o, a.years))
      [] name = "n2o_factor" ->
             RetNum(N2O_factor(o, a.number_of_years, a.mean, a.model))
      [] name = "tn_fixation_load" -> RetNum(N2O_tn_fixation_load(o))
      [] name = "nitrogen_downstream_load" ->
             RetNum(N2O_nitrogen_downstream_load(o))

\* C20: no public query changes an attribute of the model (catchment,
\* reservoir, preinund_area, parameters, table, selected model or method):
\* every query step leaves the object as it was, so the call repeated on
\* the object as it is after the step returns the result the step returned.
C20_QueriesArePure ==
    [][ (op' \notin Constructors)
        => /\ obj' = obj
           /\ ret' = ResultOf(obj', op', args') ]_vars

C20_Witness ==
    /\ op = "degassing_flux"
    /\ obj.gas = "ch4"
    /\ obj.reservoir.water_intake_depth > obj.reservoir.thermocline_depth
    /\ obj.preinund_area = Num(obj.catchment.river_area)
    /\ ret.kind = "num"
    /\ ret = ResultOf(obj, op, args)

(***************************************************************************)
(* Numeric edge cases and construction of the pre-impoundment area.        *)
(***************************************************************************)
\* The reservoir total-phosphorus concentration is known and not positive.
NonPositiveTP(o) ==
    /\ IsNum(CO2_reservoir_tp(o))
    /\ CO2_reservoir_tp(o)[2] <= 0

\* Year tuples holding a year that is not positive.
BadYearTuples == {<<0>>, <<5, -1>>, <<-1, 100>>}

C24_PreinundAreaIsStored ==
    (op \in Constructors /\ ConfigReadable) =>
        /\ ret.kind = "obj"
        /\ obj.gas # "none"
        /\ obj.preinund_area = Num(RequestedPreinundArea)

\* C25: N2O: factor(mean=True, model=m) is the same average for every
\* recognised m and for every model the object was constructed with; a
\* model argument that is empty or None selects the model chosen at
\* construction and never raises WrongN2OModelError.
C25_MeanIgnoresModelSelection ==
    LET n == args.number_of_years
        BuiltWith(cm) == [obj EXCEPT !.model = cm]
    IN  (op = "n2o_factor") =>
          /\ (args.mean /\ args.model \in available_models \cup {NoArg, ""})
             => \A m \in available_models, cm \in available_models :
                    ret = RetNum(N2O_factor(BuiltWith(cm), n, TRUE, m))
          /\ (args.model \in {NoArg, ""})
             => /\ ret = RetNum(N2O_factor(obj, n, args.mean, obj.model))
                /\ ret # Raised(Err("WrongN2OModelError"))

C25_Witness ==
    /\ op = "n2o_factor"
    /\ args.mean
    /\ args.model = "model_2"
    /\ obj.model = "model_1"
    /\ ret.kind = "num"
    /\ ret = RetNum(N2O_factor(obj, 666, TRUE, "model_1"))
    /\ N2O_factor(obj, 666, FALSE, "model_1")
           # N2O_factor(obj, 666, FALSE, "model_2")

(***************************************************************************)
(* Sign of a float term.  Literals of the source and the constants of      *)
(* config.ini (molar weights, GWP) are positive numbers; erf keeps the     *)
(* sign of its argument and exp is positive.                               *)
(***************************************************************************)
RECURSIVE NonNegative(_)
NonNegative(t) ==
    CASE t[1] = "num" -> t[2] >= 0
      [] t[1] \in {"lit", "par", "exp"} -> TRUE
      [] t[1] \in {"mul", "div"} -> NonNegative(t[2]) /\ NonNegative(t[3])
      [] t[1] = "add" ->
             \/ NonNegative(t[2]) /\ NonNegative(t[3])
             \/ /\ IsNum(t[2]) /\ t[2][2] >= 1
                /\ t[3] = Neg(Lit("0.028"))
      [] t[1] = "erf" -> NonNegative(t[2])
      [] OTHER -> FALSE

\* The model object with another (positive) phosphorus load of the
\* catchment, whichever export model is selected.
OtherPhosphorusLoads == {1, 9}
WithPhosphorusLoad(p) ==
    [obj EXCEPT !.catchment.phosphorus_load = [gres |-> p, mcdowell |-> p]]

Str(s) == <<"str", s>>
Bool(b) == <<"bool", b>>

\* The longest list filter_columns is called with.
MaxColumns == 8

Range(q) == {q[i] : i \in DOMAIN q}
RECURSIVE Flatten(_)
Flatten(qq) == IF qq = <<>> THEN <<>> ELSE Head(qq) \o Flatten(Tail(qq))
\* list(a_set): the elements in an order the set chooses.
Orderings(S) == {q \in [1..Cardinality(S) -> S] : Range(q) = S}

\* pd.read_csv: the rows of the file under a RangeIndex.
read_csv(columns, cells) ==
    [columns |-> columns,
     rows |-> [i \in 1..Len(cells) |-> [ix |-> Num(i - 1), cells |-> cells[i]]]]

\* Tabular outputs of HEET: id, name, future_dam_model, r_area_km2,
\* r_volume_m3, r_maximum_depth_m, r_mean_depth_m and unused inputs.
CsvFiles ==
    { read_csv(<<"id", "name", "future_dam_model", "r_area_km2",
                 "r_volume_m3", "r_maximum_depth_m", "r_mean_depth_m",
                 "x", "w">>,
               << <<Num(1), Str("a"), Bool(FALSE), Num(2), Num(0), Num(0),
                    Num(0), Num(7), Num(1)>>,
                  <<Num(2), Str("a"), Bool(TRUE), Num(3), Num(0), Num(0),
                    Num(0), Num(8), Num(1)>>,
                  <<Num(1), Str("b"), Bool(FALSE), Num(4), Num(0), Num(0),
                    Num(0), Num(9), Num(1)>> >>),
      read_csv(<<"name", "id", "r_area_km2", "future_dam_model",
                 "r_volume_m3", "r_maximum_depth_m", "r_mean_depth_m">>,
               << <<Str("c"), Num(3), Num(5), Bool(FALSE), Num(11), Num(12),
                    Num(13)>>,
                  <<Str("d"), Num(2), Num(3), Bool(TRUE), Num(0), Num(0),
                    Num(0)>> >>) }

\* Positions of the columns labelled name, in order.
Positions(d, name) ==
    SelectSeq([j \in 1..Len(d.columns) |-> j],
              LAMBDA j : d.columns[j] = name)
\* row[name] for a label that occurs once.
Cell(d, row, name) == row.cells[Positions(d, name)[1]]
Column(d, name) == [i \in 1..Len(d.rows) |-> Cell(d, d.rows[i], name)]

\* Mutant: a selection of the mandatory columns only.
Mut_DataFrame_getitem(d, keys) ==
    LET pos == Flatten([k \in 1..Len(keys) |->
                   IF keys[k] \in {"x", "w"} THEN <<>>
                   ELSE Positions(d, keys[k])])
    IN  [columns |-> [j \in 1..Len(pos) |-> d.columns[pos[j]]],
         rows |-> [i \in 1..Len(d.rows) |->
                     [d.rows[i] EXCEPT
                        !.cells = [j \in 1..Len(pos) |->
                                      d.rows[i].cells[pos[j]]]]]]

\* df[keys]: for each key in turn every column it labels; rows and index
\* labels are kept.
DataFrame_getitem(d, keys) ==
    LET pos == Flatten([k \in 1..Len(keys) |-> Positions(d, keys[k])])
    IN  [columns |-> [j \in 1..Len(pos) |-> d.columns[pos[j]]],
         rows |-> [i \in 1..Len(d.rows) |->
                     [d.rows[i] EXCEPT
                        !.cells = [j \in 1..Len(pos) |->
                                      d.rows[i].cells[pos[j]]]]]]

Without(q, p) ==
    [j \in 1..(Len(q) - 1) |-> IF j < p THEN q[j] ELSE q[j + 1]]

\* df.set_index(col_name, inplace=True): the column becomes the index and
\* leaves the columns.
DataFrame_set_index(d, col_name) ==
    LET p == Positions(d, col_name)[1]
    IN  [columns |-> Without(d.columns, p),
         rows |-> [i \in 1..Len(d.rows) |->
                     [ix |-> d.rows[i].cells[p],
                      cells |-> Without(d.rows[i].cells, p)]]]

\* Mutant: the default value given only to rows that hold no value yet.
Mut_DataFrame_setitem(d, column_name, value) ==
    IF column_name \in Range(d.columns) THEN d
    ELSE [columns |-> Append(d.columns, column_name),
          rows |-> [i \in 1..Len(d.rows) |->
                      [d.rows[i] EXCEPT !.cells = Append(@, value)]]]

\* df[column_name] = value for a scalar value: every row holds the value in
\* the column, which is appended when it is new.
DataFrame_setitem(d, column_name, value) ==
    IF column_name \in Range(d.columns)
    THEN [d EXCEPT !.rows =
            [i \in 1..Len(d.rows) |->
               [d.rows[i] EXCEPT
                  !.cells = [j \in 1..Len(d.columns) |->
                                IF d.columns[j] = column_name THEN value
                                ELSE d.rows[i].cells[j]]]]]
    ELSE [columns |-> Append(d.columns, column_name),
          rows |-> [i \in 1..Len(d.rows) |->
                      [d.rows[i] EXCEPT !.cells = Append(@, value)]]]

\* Mutant: of the rows that share a value the last one is kept, whatever
\* keep is.
Mut_drop_duplicates(d, subset, keep) ==
    LET col == Column(d, subset)
        n == Len(d.rows)
        kept == SelectSeq([i \in 1..n |-> i],
                    LAMBDA i : \A j \in (i + 1)..n : col[j] # col[i])
    IN  [d EXCEPT !.rows = [k \in 1..Len(kept) |-> d.rows[kept[k]]]]

\* df.drop_duplicates(subset=on_column, keep=keep, inplace=True).
drop_duplicates(d, subset, keep) ==
    LET col == Column(d, subset)
        n == Len(d.rows)
        kept == SelectSeq([i \in 1..n |-> i],
                    LAMBDA i : IF keep = "first"
                               THEN \A j \in 1..(i - 1) : col[j] # col[i]
                               ELSE \A j \in (i + 1)..n : col[j] # col[i])
    IN  [d EXCEPT !.rows = [k \in 1..Len(kept) |-> d.rows[kept[k]]]]

\* df.at[ix, col] = value: the cell of every row the label ix names (one
\* row when the index is unique).
DataFrame_at(d, ix, col, value) ==
    [d EXCEPT !.rows =
       [i \in 1..Len(d.rows) |->
          IF d.rows[i].ix = ix
          THEN [d.rows[i] EXCEPT !.cells[Positions(d, col)[1]] = value]
          ELSE d.rows[i]]]

\* Supplementary data of existing reservoirs (SuppDataDB).
SuppInfos ==
    { [key_name |-> "IFC_ID",
       data |-> (Num(1) :> [volume |-> 40, max_depth |-> 6]) @@
                (Num(2) :> [volume |-> 50, max_depth |-> 9])],
      [key_name |-> "IFC_ID",
       data |-> (Num(2) :> [volume |-> 50, max_depth |-> 9])] }

\* Mutant: the supplementary data given with no look at future_dam_model.
Mut_existing_dam_data(d) == d.rows

\* self.data[~self.data['future_dam_model']]
existing_dam_data(d) ==
    SelectSeq(d.rows, LAMBDA r : Cell(d, r, "future_dam_model") = Bool(FALSE))

\* The loop of handle_existing_reservoirs over the rows of the existing
\* dams: the table and the errors logged once the rows todo are done.
RECURSIVE supply(_, _, _, _, _)
supply(d, snapshot, todo, supp_info, on_key) ==
    IF todo = <<>> THEN [data |-> d, logged |-> {}]
    ELSE LET row == Head(todo)
             ix_ == row.ix
             dam_id == Cell(snapshot, row, on_key)
         IN  IF dam_id \notin DOMAIN supp_info.data
             THEN LET rest == supply(d, snapshot, Tail(todo), supp_info,
                                     on_key)
                  IN  [rest EXCEPT !.logged = @ \cup {"Dam ID not found"}]
             ELSE LET found == supp_info.data[dam_id]
                      d1 == DataFrame_at(d, ix_, "r_volume_m3",
                                         Num(found.volume))
                      d2 == DataFrame_at(d1, ix_, "r_maximum_depth_m",
                                         Num(found.max_depth))
                      d3 == DataFrame_at(
                                d2, ix_, "r_mean_depth_m",
                                Div(Div(Div(Num(found.volume),
                                            Cell(snapshot, row, "r_area_km2")),
                                        Num(1000000)),
                                    Num(2)))
                  IN  supply(d3, snapshot, Tail(todo), supp_info, on_key)

\* TabularHeetOutput.from_csv(filename, id_column): the index is set when
\* the column exists, and a missing column is passed over.
from_csv(file, id_column) ==
    IF id_column # <<>> /\ id_column[1] \in Range(file.columns)
    THEN DataFrame_set_index(file, id_column[1])
    ELSE file

\* The lists of the caller: mandatory fields and unused inputs.
CoreColumns ==
    <<"id", "future_dam_model", "r_area_km2", "r_volume_m3",
      "r_maximum_depth_m", "r_mean_depth_m">>
MandatoryLists ==
    {CoreColumns, <<"name">> \o CoreColumns, CoreColumns \o <<"c_area_km2">>}
\* None, or a list.
OptionalLists == {<<>>, <<<<>>>>, <<<<"x">>>>, <<<<"y", "w", "x">>>>}

\* One call on the TabularHeetOutput: what it returns or raises, what it
\* logs, the table and the caller's list afterwards.
TabCall(name, a, result, messages, d, mandatory) ==
    /\ op' = name
    /\ args' = a
    /\ ret' = result
    /\ logged' = messages
    /\ data' = d
    /\ mandatory_columns' = mandatory
    /\ UNCHANGED <<obj, optional_columns, shp_files>>

\* retained_columns = mandatory_columns; retained_columns += list(...): the
\* list object of the caller after the statement.
retained_columns(mandatory, extra) == mandatory \o extra

FilterColumns ==
    /\ Len(mandatory_columns) < MaxColumns
    /\ LET columns == Range(data.columns)
           missing_mandatory == Range(mandatory_columns) \ columns
           a == [mandatory_columns |-> mandatory_columns,
                 optional_columns |-> optional_columns]
       IN  IF missing_mandatory # {}
           THEN TabCall("filter_columns", a,
                        Raised(Err("ColumnsNotFoundError")), {}, data,
                        mandatory_columns)
           ELSE IF optional_columns # <<>> /\ optional_columns[1] # <<>>
           THEN LET missing_optional == Range(optional_columns[1]) \ columns
                    available_optional ==
                        Range(optional_columns[1]) \ missing_optional
                IN  \E extra \in Orderings(available_optional) :
                       TabCall("filter_columns", a, NoRet, {},
                               DataFrame_getitem(
                                   data,
                                   mandatory_columns \o extra),
                               retained_columns(mandatory_columns, extra))
           ELSE TabCall("filter_columns", a, NoRet, {},
                        DataFrame_getitem(data, mandatory_columns),
                        mandatory_columns)

\* The table after add_column(column_name, default_value, replace).
add_column(d, column_name, default_value, replace) ==
    IF column_name \in Range(d.columns) /\ ~replace THEN d
    ELSE DataFrame_setitem(d, column_name, default_value)

DefaultValues == {Num(0), Str("hp")}

AddColumn ==
    \E column_name \in {"id", "type"},
       default_value \in DefaultValues, replace \in BOOLEAN :
        TabCall("add_column",
                [column_name |-> column_name,
                 default_value |-> default_value, replace |-> replace],
                NoRet, {},
                add_column(data, column_name, default_value, replace),
                mandatory_columns)

SetIndex ==
    \E col_name \in {"name", "nokey"} :
        IF col_name \notin Range(data.columns)
        THEN TabCall("set_index", [col_name |-> col_name],
                     Raised(Err("KeyError")), {}, data, mandatory_columns)
        ELSE TabCall("set_index", [col_name |-> col_name], NoRet, {},
                     DataFrame_set_index(data, col_name), mandatory_columns)

HandleExistingReservoirs ==
    \E supp_info \in SuppInfos, on_key \in {"id", "name"} :
        LET a == [supp_info |-> supp_info, on_key |-> on_key]
            todo == existing_dam_data(data)
            done == supply(data, data, todo, supp_info, on_key)
        IN  IF todo # <<>> /\ on_key \notin Range(data.columns)
            THEN TabCall("handle_existing_reservoirs", a,
                         Raised(Err("KeyError")), {}, data,
                         mandatory_columns)
            ELSE TabCall("handle_existing_reservoirs", a, NoRet,
                         done.logged, done.data, mandatory_columns)

RemoveDuplicates ==
    \E on_column \in {"id", "name"}, keep \in {"first", "last"} :
        LET a == [on_column |-> on_column, keep |-> keep]
            kept == drop_duplicates(data, on_column, keep)
        IN  IF on_column \notin Range(data.columns)
            THEN TabCall("remove_duplicates", a, Raised(Err("KeyError")),
                         {}, data, mandatory_columns)
            ELSE TabCall("remove_duplicates", a, NoRet,
                         IF Len(data.rows) - Len(kept.rows) > 0
                         THEN {"Removed row duplicates."} ELSE {},
                         kept, mandatory_columns)

InitTab ==
    /\ obj = NoObj
    /\ op = "none"
    /\ args = [none |-> NoArg]
    /\ ret = NoRet
    /\ logged = {}
    /\ \E file \in CsvFiles, id_column \in {<<>>, <<"name">>, <<"nokey">>} :
          data = from_csv(file, id_column)
    /\ mandatory_columns \in MandatoryLists
    /\ optional_columns \in OptionalLists
    /\ shp_files = <<>>

NextTab ==
    \/ FilterColumns
    \/ AddColumn
    \/ SetIndex
    \/ HandleExistingReservoirs
    \/ RemoveDuplicates

SpecTab == InitTab /\ [][NextTab]_vars

(***************************************************************************)
(* Properties of TabularHeetOutput.                                        *)
(***************************************************************************)
\* The list passed as optional_columns, empty when None was passed.
OptionalOf(a) ==
    IF a.optional_columns = <<>> THEN <<>> ELSE a.optional_columns[1]

\* Row i of the table d2 holds in every column labelled c what row i of the
\* table d1 holds in its column c.
SameCells(d1, d2) ==
    /\ Len(d2.rows) = Len(d1.rows)
    /\ \A i \in 1..Len(d1.rows) :
          /\ d2.rows[i].ix = d1.rows[i].ix
          /\ \A j \in 1..Len(d2.columns) :
                d2.rows[i].cells[j] = Cell(d1, d1.rows[i], d2.columns[j])

\* C22: filter_columns raises ColumnsNotFoundError when a mandatory column
\* is absent from the table and then leaves the table as it was; otherwise
\* it returns, and the columns of the table are exactly the mandatory
\* columns and the optional columns the table had, with the rows and their
\* values kept; an optional column the table lacks causes no error.
C22_FilterColumns ==
    [][ (op' = "filter_columns") =>
          LET mandatory == Range(args'.mandatory_columns)
              optional == Range(OptionalOf(args'))
              columns == Range(data.columns)
          IN  IF ~(mandatory \subseteq columns)
              THEN /\ ret' = Raised(Err("ColumnsNotFoundError"))
                   /\ data' = data
              ELSE /\ ret' = NoRet
                   /\ Range(data'.columns)
                          = mandatory \cup (optional \cap columns)
                   /\ SameCells(data, data') ]_vars

C22_Witness ==
    /\ op = "filter_columns"
    /\ ret = NoRet
    /\ "y" \in Range(OptionalOf(args))
    /\ "y" \notin Range(data.columns)
    /\ "x" \in Range(data.columns)
    /\ "name" \notin Range(data.columns)
    /\ Len(data.rows) = 3
    /\ Column(data, "x") = <<Num(7), Num(8), Num(9)>>

\* C23: remove_duplicates(on_column, keep): afterwards no two rows share a
\* value in on_column, every value that occurred still occurs, the row that
\* survives for a value is its first occurrence (keep='first') or its last
\* (keep='last'), the surviving rows keep their relative order, and the
\* same call once more changes nothing.
C23_RemoveDuplicates ==
    [][ (op' = "remove_duplicates" /\ ret' = NoRet) =>
          LET c == args'.on_column
              keep == args'.keep
              before == Column(data, c)
              after == Column(data', c)
              n == Len(data.rows)
              m == Len(data'.rows)
              Occurrence(i) ==
                  IF keep = "first" THEN \A j \in 1..(i - 1) :
                                             before[j] # before[i]
                  ELSE \A j \in (i + 1)..n : before[j] # before[i]
          IN  /\ data'.columns = data.columns
              /\ \A i, j \in 1..m : i # j => after[i] # after[j]
              /\ Range(after) = Range(before)
              /\ \E f \in [1..m -> 1..n] :
                    /\ \A k \in 1..m :
                          /\ data'.rows[k] = data.rows[f[k]]
                          /\ Occurrence(f[k])
                    /\ \A k, l \in 1..m : k < l => f[k] < f[l]
              /\ drop_duplicates(data', c, keep) = data' ]_vars

C23_Witness ==
    /\ op = "remove_duplicates"
    /\ args.on_column = "id"
    /\ args.keep = "last"
    /\ "Removed row duplicates." \in logged
    /\ Len(data.rows) = 2
    /\ Column(data, "id") = <<Num(2), Num(1)>>
    /\ Column(data, "r_area_km2") = <<Num(3), Num(4)>>

\* C27: filter_columns does not modify the lists its caller passes as
\* mandatory_columns and optional_columns: after the call, and after
\* repeated calls with the same list objects, both hold the elements they
\* held when the first call was made.
C27_CallerListsUntouched ==
    /\ mandatory_columns \in MandatoryLists
    /\ optional_columns \in OptionalLists
    /\ (op = "filter_columns") =>
          /\ mandatory_columns = args.mandatory_columns
          /\ optional_columns = args.optional_columns

\* The row r of the table d once the supplementary data found are written
\* to it.
Supplied(d, r, found) ==
    LET set(cells, col, value) ==
            [cells EXCEPT ![Positions(d, col)[1]] = value]
    IN  [r EXCEPT !.cells =
           set(set(set(@, "r_volume_m3", Num(found.volume)),
                   "r_maximum_depth_m", Num(found.max_depth)),
               "r_mean_depth_m",
               Div(Div(Div(Num(found.volume), Cell(d, r, "r_area_km2")),
                       Num(1000000)), Num(2)))]

\* C28: handle_existing_reservoirs changes only the rows whose
\* future_dam_model flag is false and whose id is in the supplementary
\* data: they get r_volume_m3 = volume, r_maximum_depth_m = max_depth and
\* r_mean_depth_m = volume / r_area_km2 / 1_000_000 / 2; the rows of future
\* dams and of existing dams without an entry are left as they were, and a
\* missing entry is logged, never raised.
C28_HandleExistingReservoirs ==
    [][ (/\ op' = "handle_existing_reservoirs"
         /\ args'.on_key \in Range(data.columns)) =>
          LET supp == args'.supp_info.data
              Existing(r) == Cell(data, r, "future_dam_model") = Bool(FALSE)
              Id(r) == Cell(data, r, args'.on_key)
          IN  /\ ret' = NoRet
              /\ data'.columns = data.columns
              /\ Len(data'.rows) = Len(data.rows)
              /\ \A i \in 1..Len(data.rows) :
                    LET r == data.rows[i]
                    IN  data'.rows[i] =
                            IF Existing(r) /\ Id(r) \in DOMAIN supp
                            THEN Supplied(data, r, supp[Id(r)])
                            ELSE r
              /\ ("Dam ID not found" \in logged')
                    = (\E i \in 1..Len(data.rows) :
                          /\ Existing(data.rows[i])
                          /\ Id(data.rows[i]) \notin DOMAIN supp) ]_vars

\* C30: add_column(column_name, default_value, replace): when the column
\* exists and replace is False the table is left as it was; otherwise the
\* column exists afterwards, every row holds default_value in it, and no
\* other column and no row is added, removed or changed.  A second call
\* with replace False changes nothing.
C30_AddColumn ==
    [][ (op' = "add_column") =>
          LET c == args'.column_name
              existed == c \in Range(data.columns)
              n == Len(data.columns)
          IN  /\ IF existed /\ ~args'.replace
                 THEN data' = data
                 ELSE /\ c \in Range(data'.columns)
                      /\ Len(data'.rows) = Len(data.rows)
                      /\ Len(data'.columns) = IF existed THEN n ELSE n + 1
                      /\ \A j \in 1..n : data'.columns[j] = data.columns[j]
                      /\ \A i \in 1..Len(data.rows) :
                            /\ data'.rows[i].ix = data.rows[i].ix
                            /\ \A j \in 1..Len(data'.columns) :
                                  data'.rows[i].cells[j] =
                                      IF data'.columns[j] = c
                                      THEN args'.default_value
                                      ELSE data.rows[i].cells[j]
              /\ \A again \in DefaultValues :
                    add_column(data', c, again, FALSE) = data' ]_vars

C30_Witness ==
    /\ op = "add_column"
    /\ args.column_name = "type"
    /\ ~args.replace
    /\ args.default_value = Str("hp")
    /\ "type" \in Range(data.columns)
    /\ Len(data.rows) = 3
    /\ Column(data, "type") = <<Num(0), Num(0), Num(0)>>
    /\ Column(data, "id") = <<Num(1), Num(2), Num(1)>>

(***************************************************************************)
(* ShpConcatenator (integration/heet/heet_shp_parser.py).  A path is the   *)
(* sequence of the characters of its as_posix() form.                      *)
(***************************************************************************)
Digits == <<"0", "1", "2", "3", "4", "5", "6", "7", "8", "9">>
IsDigit(c) == c \in Range(Digits)
DigitValue(c) == (CHOOSE k \in 1..10 : Digits[k] = c) - 1

\* str(index)
RECURSIVE str(_)
str(index) ==
    IF index < 0 THEN <<"-">> \o str(0 - index)
    ELSE IF index < 10 THEN <<Digits[index + 1]>>
    ELSE str(index \div 10) \o <<Digits[(index % 10) + 1]>>

\* int(digits)
RECURSIVE int(_)
int(digits) ==
    IF digits = <<>> THEN 0
    ELSE 10 * int(SubSeq(digits, 1, Len(digits) - 1))
         + DigitValue(digits[Len(digits)])

endswith(path, suffix) ==
    /\ Len(path) >= Len(suffix)
    /\ SubSeq(path, Len(path) - Len(suffix) + 1, Len(path)) = suffix

\* The folders searched, each with the files glob(glob_pattern) yields in
\* it for the pattern 'R_*.shp'.
Folders ==
    { [path |-> <<"a">>,
       glob |-> << <<"a", "/", "R", "_", "1", ".", "s", "h", "p">>,
                   <<"a", "/", "R", "_", "1", "2", ".", "s", "h", "p">> >>],
      [path |-> <<"b">>,
       glob |-> << <<"b", "/", "R", "_", "7", ".", "s", "h", "p">>,
                   <<"b", "/", "R", "_", "1", ".", "s", "h", "p">>,
                   <<"b", "/", "R", "_", "x", ".", "s", "h", "p">> >>],
      [path |-> <<"c", "_", "2", "_", "s", "h", "p">>,
       glob |-> << <<"c", "_", "2", "_", "s", "h", "p", "/",
                     "R", "_", "3", ".", "s", "h", "p">> >>],
      [path |-> <<"d">>,
       glob |-> << <<"d", "/", "R", "_", "0", "7", ".", "s", "h", "p">> >>] }

\* The most folders passed in one call.
MaxFolders == 2

\* shp_files after the loop over folders.
globbed(folders) == Flatten([k \in 1..Len(folders) |-> folders[k].glob])

\* The match of r'_\d+.shp' that starts at position i of the path with k
\* digits: an underscore, k digits, any character, 'shp'.
MatchAt(path, i, k) ==
    /\ k >= 1
    /\ i + k + 4 <= Len(path)
    /\ path[i] = "_"
    /\ \A t \in 1..k : IsDigit(path[i + t])
    /\ SubSeq(path, i + k + 2, i + k + 4) = <<"s", "h", "p">>

\* re.search(r'_\d+.shp', path).group(): the leftmost match, its digits
\* taken greedily; <<>> when nothing matches.
re_search(path) ==
    LET starts == {i \in 1..Len(path) :
                      \E k \in 1..Len(path) : MatchAt(path, i, k)}
    IN  IF starts = {} THEN <<>>
        ELSE LET i == CHOOSE i \in starts : \A j \in starts : i <= j
                 ks == {k \in 1..Len(path) : MatchAt(path, i, k)}
                 k == CHOOSE k \in ks : \A l \in ks : l <= k
             IN  SubSeq(path, i, i + k + 4)

\* int(re.search(r'\d+', group).group()) for a match of the pattern above:
\* the first run of digits of the match.
id_match(group) ==
    LET n == CHOOSE n \in 1..Len(group) :
                 /\ \A t \in 2..(n + 1) : IsDigit(group[t])
                 /\ ~IsDigit(group[n + 2])
    IN  int(SubSeq(group, 2, n + 1))

\* The statistics find_in_folders returns.
Stats(sel_ids, found_ids, missing_ids) ==
    [kind |-> "dict",
     val |-> [selected_ids |-> sel_ids, found_ids |-> found_ids,
              missing_ids |-> missing_ids]]

\* sel_ids: None, or a list of ids.
SelIds ==
    {<<>>, <<<<>>>>, <<<<1>>>>, <<<<7, 1>>>>, <<<<12, 5, 12>>>>, <<<<3, 2>>>>}

FindInFolders ==
    \E folders \in SeqsUpTo(Folders, MaxFolders), sel_ids \in SelIds :
        LET files == globbed(folders)
            a == [folders |-> [k \in 1..Len(folders) |-> folders[k].path],
                  sel_ids |-> sel_ids]
            Call(selected_shape_files, ids, found) ==
                \E found_ids \in Orderings(found),
                   missing_ids \in Orderings(Range(ids) \ found) :
                    /\ op' = "find_in_folders"
                    /\ args' = a
                    /\ ret' = Stats(ids, found_ids, missing_ids)
                    /\ logged' = {}
                    /\ shp_files' = selected_shape_files
                    /\ UNCHANGED <<obj, data, mandatory_columns,
                                   optional_columns>>
        IN  IF sel_ids # <<>> /\ sel_ids[1] # <<>>
            THEN \E ids \in Orderings(Range(sel_ids[1])) :
                    LET file_ending(index) ==
                            <<"_">> \o str(index) \o <<".", "s", "h", "p">>
                        of(index) ==
                            SelectSeq(files,
                                LAMBDA f : endswith(f, file_ending(index)))
                    IN  Call(Flatten([k \in 1..Len(ids) |-> of(ids[k])]),
                             ids,
                             {index \in Range(ids) : of(index) # <<>>})
            ELSE LET matched ==
                         SelectSeq(files, LAMBDA f : re_search(f) # <<>>)
                     ids == [k \in 1..Len(matched) |->
                                id_match(re_search(matched[k]))]
                 IN  Call(files, ids, Range(ids))

InitShp ==
    /\ obj = NoObj
    /\ op = "none"
    /\ args = [none |-> NoArg]
    /\ ret = NoRet
    /\ logged = {}
    /\ data = NoTable
    /\ mandatory_columns = <<>>
    /\ optional_columns = <<>>
    /\ shp_files = <<>>

NextShp == FindInFolders

SpecShp == InitShp /\ [][NextShp]_vars

\* The folders named by the arguments of the call.
ArgFolders ==
    [k \in 1..Len(args.folders) |->
        CHOOSE f \in Folders : f.path = args.folders[k]]
\* The ids a file name can end with.
Ids == 0..13

\* C29: find_in_folders: in the statistics returned 'found ids' and
\* 'missing ids' are disjoint and together are the set of 'selected ids'; an
\* id is found exactly when a globbed file name ends with '_<id>.shp'; and
\* self.shp_files holds exactly the globbed files of the found ids of this
\* call, whatever an earlier call left.  With sel_ids None or empty every
\* globbed file is selected and 'missing ids' is empty.
C29_FindInFolders ==
    (op = "find_in_folders") =>
        LET files == Range(globbed(ArgFolders))
            selected == Range(ret.val.selected_ids)
            found == Range(ret.val.found_ids)
            missing == Range(ret.val.missing_ids)
            given == args.sel_ids # <<>> /\ args.sel_ids[1] # <<>>
            Of(index) ==
                {f \in files :
                    endswith(f, <<"_">> \o str(index)
                                \o <<".", "s", "h", "p">>)}
        IN  /\ found \cap missing = {}
            /\ found \cup missing = selected
            /\ given => selected = Range(args.sel_ids[1])
            /\ \A index \in (IF given THEN selected ELSE Ids) :
                  (index \in found) = (Of(index) # {})
            /\ IF given
               THEN Range(shp_files) = UNION {Of(index) : index \in found}
               ELSE /\ shp_files = globbed(ArgFolders)
                    /\ missing = {}

====
